---------------------------- MODULE Spec2Model ----------------------------
(***************************************************************************)
(* A model of the chat-thread service (chatThreadService.ts) and of the    *)
(* incremental block parser (extractSearchReplaceBlocks and friends).      *)
(*                                                                         *)
(* JavaScript values are represented as follows.  Text is a TLA+ string;   *)
(* `undefined` and `null` are the two reserved strings Undefined and Null. *)
(* Arrays are sequences (JavaScript index k is TLA+ index k + 1).  An      *)
(* object is a record, a map from string keys a function.  A value of      *)
(* type `number | undefined` is a set holding at most one number.          *)
(* Timestamps are integers (the reading of the wall clock `now`).          *)
(***************************************************************************)
EXTENDS Integers, Sequences, FiniteSets, TLC

(* ------------------------------ bounds -------------------------------- *)
\* turns the user starts (addUserMessageAndStreamResponse, editUserMessageAndStreamResponse)
MaxTurns == 1
\* calls the user interface makes on the service (send, edit, cancel, dismiss, switch, ...)
MaxUserOps == 3
\* requests the transport accepts; past it sendLLMMessage returns null
MaxRequests == 2
\* the same three budgets for the specification of the thread store
MaxStoreTurns == 1
MaxStoreOps == 4
MaxStoreRequests == 2
\* the length of the text the parser is given
MaxLen == 12
\* calls the user interface makes after construction, in the specification of construction
MaxLoadOps == 3
\* the length of the code inside a fenced block given to extractCodeFromRegular
MaxCodeLen == 3
\* calls that replace this.state, in the specification of the objects behind it
MaxHeapOps == 3
\* the three budgets of the specification of editing
MaxEditTurns == 1
MaxEditOps == 3
MaxEditRequests == 1
\* the three budgets of the specification of a thread whose last turn failed
MaxRetryTurns == 2
MaxRetryOps == 4
MaxRetryRequests == 2
\* the three budgets of the specification of the message list of a request
MaxSendTurns == 1
MaxSendOps == 2
MaxSendRequests == 2
\* the three budgets of the specification of two turns on one thread
MaxPairTurns == 2
MaxPairOps == 3
MaxPairRequests == 3
\* the tool calls of one final message, in the specification of the loop of one turn
MaxToolCalls == 3

VARIABLES
    allThreads,       \* this.state.allThreads
    currentThreadId,  \* this.state.currentThreadId
    storage,          \* the value stored under THREAD_STORAGE_KEY
    streamState,      \* this.streamState
    now,              \* the wall clock read by new Date()
    turns,            \* one record per call of add/editUserMessageAndStreamResponse
    requests,         \* one record per request the transport accepted
    running,          \* the tool executions in progress
    userOps,          \* the calls the user interface has made
    text,             \* the text given to an extractor (the parser: the text received so far)
    parsed,           \* the extractor's results (the parser: one after each character)
    versionTag,       \* the value stored under THREAD_VERSION_KEY
    storedAs,         \* what is under THREAD_STORAGE_KEY: nothing, unparseable text, or JSON
    phase,            \* the constructor's position: not started, threads loaded, done, thrown
    heap,             \* the objects behind this.state, by address
    stateRef,         \* the address of the object this.state refers to
    snapshots         \* what a subscriber read from this.state at each notification

svcVars == <<allThreads, currentThreadId, storage, streamState, now, turns, requests, running, userOps>>
pureVars == <<text, parsed>>
bootVars == <<versionTag, storedAs, phase>>
heapVars == <<heap, stateRef, snapshots>>
vars == <<svcVars, pureVars, bootVars, heapVars>>

\* the objects behind this.state are not followed
NoHeap == heap = <<>> /\ stateRef = 0 /\ snapshots = {}

Undefined == "<undefined>"
Null == "<null>"

(* ------------------------------ helpers ------------------------------- *)
\* { ...f, [k]: v }
Put(f, k, v) == [x \in (DOMAIN f) \cup {k} |-> IF x = k THEN v ELSE f[x]]

\* { ...a, ...b }
Merge(a, b) == [k \in (DOMAIN a) \cup (DOMAIN b) |-> IF k \in DOMAIN b THEN b[k] ELSE a[k]]

\* arr.slice(0, n)
Slice(arr, n) == SubSeq(arr, 1, IF n < Len(arr) THEN n ELSE Len(arr))

\* the largest TLA+ index whose element satisfies the condition, 0 for the code's -1;
\* the condition is given as the set of the elements that satisfy it
findLastIndex(arr, condition) ==
    LET hits == {i \in 1..Len(arr) : arr[i] \in condition}
    IN  IF hits = {} THEN 0 ELSE CHOOSE i \in hits : \A j \in hits : j <= i

(* ------------------------------- inputs ------------------------------- *)
FileSelection(uri) == [type |-> "File", fileURI |-> uri, selectionStr |-> Null, range |-> Null]

\* what the user may have staged on a thread
SelectionLists == {<<>>, <<FileSelection("f1")>>}

\* what the user types
UserTexts == {"hi"}

\* the modes the user sends in ('chat' advertises no tools, and then no tool call comes back)
ChatModes == {"agent"}

\* the accumulated text an onText reports
StreamTexts == {"a"}

\* the text of a final message
FinalTexts == {"ab"}

ToolCall(name, params, id) == [name |-> name, params |-> params, id |-> id]

\* the tool calls of a final message
ToolCallLists ==
    { <<>>,
      <<ToolCall("read_file", "p1", "call1"), ToolCall("list_dir", "p2", "call2")>> }

\* how one tool execution ends: it returns, toolFns throws, toolResultToString throws
ToolOutcomes == {"ok", "toolThrows", "toStringThrows"}

(* --------------------------- data model ------------------------------- *)
defaultMessageState == [stagingSelections |-> <<>>, isBeingEdited |-> FALSE]

defaultThreadState ==
    [stagingSelections |-> <<>>, focusedMessageIdx |-> {}, isCheckedOfSelectionId |-> <<>>]

newThreadObject(time) ==
    [id |-> ToString(time), createdAt |-> time, lastModified |-> time,
     messages |-> <<>>,
     state |-> [stagingSelections |-> <<>>, focusedMessageIdx |-> {},
                isCheckedOfSelectionId |-> <<>>]]

UserMessage(content, displayContent, selections) ==
    [role |-> "user", content |-> content, displayContent |-> displayContent,
     selections |-> selections, state |-> defaultMessageState]

AssistantMessage(content, displayContent) ==
    [role |-> "assistant", content |-> content, displayContent |-> displayContent]

\* a tool message that takes its id from the tool's name
ToolMessageWithNameAsId(tool, toolResultStr, toolResultVal) ==
    [role |-> "tool", name |-> tool.name, params |-> tool.params, id |-> tool.name,
     content |-> toolResultStr, result |-> toolResultVal]

ToolMessage(tool, toolResultStr, toolResultVal) ==
    [role |-> "tool", name |-> tool.name, params |-> tool.params, id |-> tool.id,
     content |-> toolResultStr, result |-> toolResultVal]

\* c.content || '(empty message)'
OrElse(content, dflt) == IF content \in {"", Null, Undefined} THEN dflt ELSE content

\* a conversion that passes an empty content on as it is
toLLMChatMessageAsKept(c) ==
    IF c.role = "tool"
    THEN [role |-> c.role, id |-> c.id, name |-> c.name, params |-> c.params, content |-> c.content]
    ELSE [role |-> c.role, content |-> c.content]

toLLMChatMessage(c) ==
    IF c.role \in {"system", "user"} THEN [role |-> c.role, content |-> OrElse(c.content, "(empty message)")]
    ELSE IF c.role = "assistant" THEN [role |-> c.role, content |-> OrElse(c.content, "(empty message)")]
    ELSE [role |-> c.role, id |-> c.id, name |-> c.name, params |-> c.params,
          content |-> OrElse(c.content, "(empty output)")]

(* ----------------------------- persistence ---------------------------- *)
\* JSON.stringify of one thread: a key whose value is undefined is left out
JSONThread(thread) ==
    IF "state" \in DOMAIN thread
    THEN [thread EXCEPT !.state =
            IF "focusedMessageIdx" \in DOMAIN thread.state /\ thread.state.focusedMessageIdx = {}
            THEN [k \in (DOMAIN thread.state) \ {"focusedMessageIdx"} |-> thread.state[k]]
            ELSE thread.state]
    ELSE thread

JSONStringify(threads) == [id \in DOMAIN threads |-> JSONThread(threads[id])]

\* JSON.parse of one stored thread: a key that was left out reads as undefined
ParsedThread(stored) ==
    IF "state" \in DOMAIN stored /\ "focusedMessageIdx" \notin DOMAIN stored.state
    THEN [stored EXCEPT !.state = Put(stored.state, "focusedMessageIdx", {})]
    ELSE stored

\* JSON.parse of a stored thread map
JSONParse(stored) == [id \in DOMAIN stored |-> ParsedThread(stored[id])]

THREAD_VERSION_KEY == "void.chatThreadVersion"
LATEST_THREAD_VERSION == "v2"
THREAD_STORAGE_KEY == "void.chatThreadStorage"


(* ------------------------------ prompts ------------------------------- *)
RECURSIVE selectionNames(_)
selectionNames(selns) ==
    IF selns = <<>> THEN "" ELSE "[" \o Head(selns).fileURI \o "]" \o selectionNames(Tail(selns))

RECURSIVE selectionContents(_)
selectionContents(selns) ==
    IF selns = <<>> THEN "" ELSE "{" \o Head(selns).fileURI \o "}" \o selectionContents(Tail(selns))

\* the message content kept in the thread: the instructions and the names of the selections
chat_userMessageContent(instructions, currSelns) == instructions \o selectionNames(currSelns)

\* the contents of every referenced file and selection
chat_selectionsString(prevSelns, currSelns) == selectionContents(prevSelns \o currSelns)

\* the fully-expanded content sent to the transport
chat_userMessageContentWithAllFiles(userMessageContent, selectionsStr) ==
    userMessageContent \o selectionsStr

chat_systemMessage == "(system message)"

(* ------------------------------ the store ----------------------------- *)

getCurrentThread == allThreads[currentThreadId]

\* messages.flatMap(m => m.role === 'user' && m.selections || [])
RECURSIVE flatSelections(_)
flatSelections(messages) ==
    IF messages = <<>> THEN <<>>
    ELSE LET m == Head(messages)
         IN  (IF m.role = "user" /\ m.selections # Null THEN m.selections ELSE <<>>)
                \o flatSelections(Tail(messages))

getAllSelections == flatSelections(getCurrentThread.messages)

\* the selections of every user message of the thread, whatever the index
selectionsOfWholeThread(messageIdx) == getAllSelections

\* _getSelectionsUpToMessageIdx
getSelectionsUpToMessageIdx(messageIdx) == flatSelections(Slice(getCurrentThread.messages, messageIdx))

\* the reading new Date() gives: the time of the last thread creation (the clock
\* of the model advances when a thread is created, whose id is the time)
ClockReadings == {now}

\* a thread map with the message put first
prependMessageToThread(threads, threadId, message, time) ==
    LET oldThread == threads[threadId]
    IN  Put(threads, oldThread.id,
            [oldThread EXCEPT !.lastModified = time,
                              !.messages = <<message>> \o oldThread.messages])

\* the thread map _addMessageToThread builds
addMessageToThread(threads, threadId, message, time) ==
    LET oldThread == threads[threadId]
    IN  Put(threads, oldThread.id,
            [oldThread EXCEPT !.lastModified = time,
                              !.messages = Append(oldThread.messages, message)])

\* _addMessageToThread: build the map, store it, replace the state
AddMessageToThread(threadId, message) ==
    \E time \in ClockReadings :
        /\ now' = time
        /\ allThreads' = addMessageToThread(allThreads, threadId, message, time)
        /\ storage' = JSONStringify(addMessageToThread(allThreads, threadId, message, time))

(* --------------------------- the stream state ------------------------- *)
EmptyStreamState == [error |-> Undefined, messageSoFar |-> Undefined, streamingToken |-> Undefined]

\* this.streamState[threadId], a missing entry or key reading as undefined
StreamOf(ss, threadId) == IF threadId \in DOMAIN ss THEN ss[threadId] ELSE EmptyStreamState

\* _setStreamState; an entry all of whose keys read undefined is represented as no entry
setStreamState(ss, threadId, state) ==
    LET merged == Merge(StreamOf(ss, threadId), state)
    IN  IF merged = EmptyStreamState
        THEN [id \in (DOMAIN ss) \ {threadId} |-> ss[id]]
        ELSE Put(ss, threadId, merged)

\* the partial text dropped: always ''
messageSoFarDropped(ss, threadId) == ""

\* this.streamState[threadId]?.messageSoFar ?? ''
messageSoFarOrEmpty(ss, threadId) ==
    IF StreamOf(ss, threadId).messageSoFar = Undefined THEN "" ELSE StreamOf(ss, threadId).messageSoFar

\* a stream state that keeps the streaming token
finishedStreamStateKeepingToken(ss, threadId, error) ==
    setStreamState(ss, threadId, [messageSoFar |-> Undefined, error |-> error])

\* the stream state _finishStreamingTextMessage leaves
finishedStreamState(ss, threadId, error) ==
    setStreamState(ss, threadId,
        [messageSoFar |-> Undefined, streamingToken |-> Undefined, error |-> error])

\* an assistant message that loses the text
finishedMessageBlank(content) == AssistantMessage("", Null)

\* the assistant message _finishStreamingTextMessage appends
finishedMessage(content) == AssistantMessage(content, IF content = "" THEN Null ELSE content)

FinishStreamingTextMessage(threadId, content, error) ==
    /\ AddMessageToThread(threadId, finishedMessage(content))
    /\ streamState' = finishedStreamState(streamState, threadId, error)

(* ----------------------------- the transport -------------------------- *)
\* the cancellation handle sendLLMMessage returns for its n-th accepted request
Token(n) == "req" \o ToString(n)

RequestOfToken(token) == {r \in 1..Len(requests) : Token(r) = token}

\* the transport may still call back a request it has not answered, aborted or not
TransportMayDeliver(r) == requests[r].status = "inflight"

ThreadIdOf(r) == turns[requests[r].turn].threadId

(* ---------------------------- the agent loop -------------------------- *)
\* the tool catalog advertised for a chat mode
toolsOf(chatMode) == IF chatMode = "agent" THEN "voidTools" ELSE Undefined

\* the messages a request carries for a thread: the system message, then the thread's
\* messages with the last user message replaced by the full content
requestMessagesOf(thread, userMessageFullContent) ==
    LET messages_ == [i \in 1..Len(thread.messages) |-> toLLMChatMessage(thread.messages[i])]
        isUser == {messages_[i] : i \in {j \in 1..Len(messages_) : messages_[j].role = "user"}}
        lastUserMsgIdx == findLastIndex(messages_, isUser)
        messages == IF lastUserMsgIdx # 0
                    THEN SubSeq(messages_, 1, lastUserMsgIdx - 1)
                            \o <<[role |-> "user", content |-> userMessageFullContent]>>
                            \o SubSeq(messages_, lastUserMsgIdx + 1, Len(messages_))
                    ELSE messages_
    IN  <<[role |-> "system", content |-> chat_systemMessage]>> \o messages

\* the messages of one request: agentLoop reads this.getCurrentThread().messages
requestMessages(threads, userMessageFullContent) ==
    requestMessagesOf(threads[currentThreadId], userMessageFullContent)

\* every remaining tool call started at once
startAllTools(r, toolCalls, i) == {[req |-> r, idx |-> j] : j \in i..Len(toolCalls)}

\* the tool executions started when the handler reaches tool call i of request r
startTool(r, toolCalls, i) == {[req |-> r, idx |-> i]}

\* one pass of the while loop of agentLoop up to its await, for turn k whose record is T,
\* over the thread map `threads`, the stream state `ss` and the requests `reqs` the step
\* has produced
SendIteration(k, T, threads, ss, reqs, accepted) ==
        /\ IF accepted
           THEN /\ requests' = Append(reqs,
                        [turn |-> k, iter |-> T.nMessagesSent + 1,
                         messages |-> requestMessages(threads, T.userMessageFullContent),
                         tools |-> toolsOf(T.chatMode),
                         status |-> "inflight", aborted |-> FALSE,
                         toolCalls |-> <<>>, toolIdx |-> 0])
                /\ streamState' = setStreamState(ss, T.threadId,
                        [streamingToken |-> Token(Len(requests) + 1)])
                /\ turns' = [turns EXCEPT ![k] =
                        [T EXCEPT !.pc = "awaiting", !.shouldSendAnotherMessage = FALSE,
                                  !.nMessagesSent = T.nMessagesSent + 1]]
           ELSE /\ requests' = reqs
                /\ streamState' = ss
                /\ turns' = [turns EXCEPT ![k] =
                        [T EXCEPT !.pc = "done", !.shouldSendAnotherMessage = FALSE,
                                  !.nMessagesSent = T.nMessagesSent + 1]]

\* the loop ends: the while condition is false
ExitLoop(k, T) == turns' = [turns EXCEPT ![k] = [T EXCEPT !.pc = "done"]]

\* res_() at the end of a handler resumes the loop, which sends again or ends
ResumeLoop(k, T, threads, ss, reqs, accepted) ==
    IF T.shouldSendAnotherMessage
    THEN SendIteration(k, T, threads, ss, reqs, accepted)
    ELSE /\ ExitLoop(k, T)
         /\ streamState' = ss
         /\ requests' = reqs

\* addUserMessageAndStreamResponse up to its first await
startTurn(thread, userMessage, chatMode, prevSelns, currSelns) ==
    [threadId |-> thread.id, pc |-> "preparing",
     instructions |-> userMessage, chatMode |-> chatMode,
     prevSelns |-> prevSelns, currSelns |-> currSelns,
     userMessageFullContent |-> Undefined,
     shouldSendAnotherMessage |-> TRUE, nMessagesSent |-> 0]

AddUserMessageStart(userMessage, chatMode) ==
    /\ turns' = Append(turns, startTurn(getCurrentThread, userMessage, chatMode,
                                        getAllSelections,
                                        getCurrentThread.state.stagingSelections))
    /\ UNCHANGED <<allThreads, currentThreadId, storage, streamState, now, requests, running>>
    /\ UNCHANGED <<pureVars, bootVars, heapVars>>

\* a check that looks only at whether the message exists
editableAnyRole(thread, messageIdx) == messageIdx + 1 \in 1..Len(thread.messages)

\* thread.messages?.[messageIdx]?.role === 'user'; messageIdx counts from 0
editable(thread, messageIdx) ==
    /\ messageIdx + 1 \in 1..Len(thread.messages)
    /\ thread.messages[messageIdx + 1].role = "user"

\* message.selections || []
selectionsOrNone(message) ==
    IF "selections" \in DOMAIN message
    THEN (IF message.selections = Null THEN <<>> ELSE message.selections)
    ELSE <<>>

\* the record of a call that threw before it did anything
thrownCall(thread, userMessage, chatMode) ==
    [startTurn(thread, userMessage, chatMode, <<>>, <<>>) EXCEPT
        !.pc = "thrown", !.shouldSendAnotherMessage = FALSE]

\* editUserMessageAndStreamResponse up to the first await of the
\* addUserMessageAndStreamResponse it calls; the call throws, and changes nothing,
\* when the message at messageIdx is not a user message
EditUserMessageStart(userMessage, chatMode, messageIdx) ==
    /\ LET thread == getCurrentThread
       IN  IF editable(thread, messageIdx)
           THEN LET prevSelns == getSelectionsUpToMessageIdx(messageIdx)
                    currSelns == selectionsOrNone(thread.messages[messageIdx + 1])
                    slicedMessages == Slice(thread.messages, messageIdx)
                    sliced == [thread EXCEPT !.messages = slicedMessages]
                IN  /\ allThreads' = Put(allThreads, thread.id, sliced)
                    /\ turns' = Append(turns, startTurn(sliced, userMessage, chatMode,
                                                        prevSelns, currSelns))
           ELSE /\ allThreads' = allThreads
                /\ turns' = Append(turns, thrownCall(thread, userMessage, chatMode))
    /\ UNCHANGED <<currentThreadId, storage, streamState, now, requests, running>>
    /\ UNCHANGED <<pureVars, bootVars, heapVars>>

\* a stale error left where it is
staleErrorKept(ss, threadId) == ss

\* this._setStreamState(threadId, { error: undefined })
clearedError(ss, threadId) == setStreamState(ss, threadId, [error |-> Undefined])

\* addUserMessageAndStreamResponse after its awaits: append the user message,
\* clear the stream error, start the agent loop
AddUserMessageAppend(k, accepted) ==
    /\ turns[k].pc = "preparing"
    /\ LET T == turns[k]
           userMessageContent == chat_userMessageContent(T.instructions, T.currSelns)
           selectionsStr == chat_selectionsString(T.prevSelns, T.currSelns)
           full == chat_userMessageContentWithAllFiles(userMessageContent, selectionsStr)
       IN  /\ AddMessageToThread(T.threadId, UserMessage(userMessageContent, T.instructions, T.currSelns))
           /\ SendIteration(k, [T EXCEPT !.userMessageFullContent = full], allThreads',
                            clearedError(streamState, T.threadId),
                            requests, accepted)
    /\ UNCHANGED <<currentThreadId, running>>
    /\ UNCHANGED <<pureVars, bootVars, heapVars>>

\* onText
OnText(r, fullText) ==
    /\ TransportMayDeliver(r) /\ ~requests[r].aborted
    /\ streamState' = setStreamState(streamState, ThreadIdOf(r), [messageSoFar |-> fullText])
    /\ UNCHANGED <<allThreads, currentThreadId, storage, now, turns, requests, running>>
    /\ UNCHANGED <<pureVars, bootVars, heapVars>>

\* onFinalMessage up to its first await (or to its end when there is no tool call)
OnFinalMessage(r, fullText, toolCalls, accepted) ==
    /\ TransportMayDeliver(r)
    /\ requests[r].tools = Undefined => toolCalls = <<>>
    /\ LET k == requests[r].turn
           threadId == ThreadIdOf(r)
       IN  IF Len(toolCalls) = 0
           THEN /\ AddMessageToThread(threadId, finishedMessage(fullText))
                /\ ResumeLoop(k, turns[k], allThreads',
                              finishedStreamState(streamState, threadId, Undefined),
                              [requests EXCEPT ![r].status = "closed"], accepted)
                /\ running' = running
           ELSE /\ AddMessageToThread(threadId, AssistantMessage(fullText, fullText))
                /\ streamState' = setStreamState(streamState, threadId, [messageSoFar |-> Undefined])
                /\ requests' = [requests EXCEPT ![r].status = "tools",
                                                ![r].toolCalls = toolCalls, ![r].toolIdx = 1]
                /\ running' = running \cup startTool(r, toolCalls, 1)
                /\ turns' = turns
    /\ UNCHANGED currentThreadId
    /\ UNCHANGED <<pureVars, bootVars, heapVars>>

\* a tool loop that leaves the loop's flag as the iteration set it
afterToolSuccessKeepsFlag(T) == T

\* the end of the body of the tool loop: shouldSendAnotherMessage = true
afterToolSuccess(T) == [T EXCEPT !.shouldSendAnotherMessage = TRUE]

\* a catch block that leaves the loop's flag as the earlier tool calls set it
afterToolFailureKeepsFlag(T) == T

\* the catch blocks of the tool loop: shouldSendAnotherMessage = false
afterToolFailure(T) == [T EXCEPT !.shouldSendAnotherMessage = FALSE]

\* onFinalMessage from the await of a tool execution to the next await or to res_()
ToolReturn(r, outcome, accepted) ==
    /\ requests[r].status = "tools"
    /\ [req |-> r, idx |-> requests[r].toolIdx] \in running
    /\ LET k == requests[r].turn
           threadId == ThreadIdOf(r)
           i == requests[r].toolIdx
           tool == requests[r].toolCalls[i]
           left == running \ {[req |-> r, idx |-> i]}
           closed == [requests EXCEPT ![r].status = "closed"]
       IN  IF outcome = "ok"
           THEN /\ AddMessageToThread(threadId,
                        ToolMessage(tool, "str:" \o tool.params, "val:" \o tool.params))
                /\ IF i < Len(requests[r].toolCalls)
                   THEN /\ requests' = [requests EXCEPT ![r].toolIdx = i + 1]
                        /\ running' = left \cup startTool(r, requests[r].toolCalls, i + 1)
                        /\ turns' = [turns EXCEPT ![k] = afterToolSuccess(turns[k])]
                        /\ streamState' = streamState
                   ELSE /\ running' = left
                        /\ ResumeLoop(k, afterToolSuccess(turns[k]),
                                      allThreads', streamState, closed, accepted)
           ELSE /\ running' = left
                /\ ResumeLoop(k, afterToolFailure(turns[k]),
                              allThreads, setStreamState(streamState, threadId, [error |-> outcome]),
                              closed, accepted)
                /\ UNCHANGED <<allThreads, storage, now>>
    /\ UNCHANGED currentThreadId
    /\ UNCHANGED <<pureVars, bootVars, heapVars>>

\* onError
OnError(r, error, accepted) ==
    /\ TransportMayDeliver(r)
    /\ LET k == requests[r].turn
           threadId == ThreadIdOf(r)
       IN  /\ AddMessageToThread(threadId, finishedMessage(messageSoFarOrEmpty(streamState, threadId)))
           /\ ResumeLoop(k, turns[k], allThreads',
                         finishedStreamState(streamState, threadId, error),
                         [requests EXCEPT ![r].status = "closed"], accepted)
    /\ UNCHANGED <<currentThreadId, running>>
    /\ UNCHANGED <<pureVars, bootVars, heapVars>>

\* this._llmMessageService.abort(token): the transport is told to stop the request
abort(reqs, token) ==
    [r \in 1..Len(reqs) |-> IF Token(r) = token THEN [reqs[r] EXCEPT !.aborted = TRUE] ELSE reqs[r]]

\* the text cancelStreaming finishes the thread with
cancelledContent(ss, threadId) == messageSoFarOrEmpty(ss, threadId)

cancelStreaming(threadId) ==
    /\ LET llmCancelToken == StreamOf(streamState, threadId).streamingToken
       IN  requests' = IF llmCancelToken # Undefined THEN abort(requests, llmCancelToken) ELSE requests
    /\ FinishStreamingTextMessage(threadId, cancelledContent(streamState, threadId), Undefined)

CancelStreaming(threadId) ==
    /\ cancelStreaming(threadId)
    /\ UNCHANGED <<currentThreadId, turns, running>>
    /\ UNCHANGED <<pureVars, bootVars, heapVars>>

DismissStreamError(threadId) ==
    /\ streamState' = setStreamState(streamState, threadId, [error |-> Undefined])
    /\ UNCHANGED <<allThreads, currentThreadId, storage, now, turns, requests, running>>
    /\ UNCHANGED <<pureVars, bootVars, heapVars>>

\* switchToThread: the caller passes the id of an existing thread
SwitchToThread(threadId) ==
    /\ currentThreadId' = threadId
    /\ UNCHANGED <<allThreads, storage, streamState, now, turns, requests, running>>
    /\ UNCHANGED <<pureVars, bootVars, heapVars>>

\* the ids of the threads without messages, in the order a for-in loop visits them:
\* the order the threads were created in
EmptyThreadIds(threads) == {id \in DOMAIN threads : Len(threads[id].messages) = 0}

FirstEmptyThreadId(threads) ==
    CHOOSE id \in EmptyThreadIds(threads) :
        \A other \in EmptyThreadIds(threads) : threads[id].createdAt <= threads[other].createdAt

\* a thread map that lacks the thread made current
openedThreadUnlisted(threads, time) ==
    [allThreads |-> threads, currentThreadId |-> newThreadObject(time).id, created |-> FALSE]

\* a thread always created, whether a thread is empty or not
openedThreadAlwaysNew(threads, time) ==
    [allThreads |-> Put(threads, newThreadObject(time).id, newThreadObject(time)),
     currentThreadId |-> newThreadObject(time).id, created |-> TRUE]

\* what openNewThread leaves of the thread map it finds, when a thread it creates is
\* created at `time`
openedThread(threads, time) ==
    IF EmptyThreadIds(threads) # {}
    THEN [allThreads |-> threads, currentThreadId |-> FirstEmptyThreadId(threads),
          created |-> FALSE]
    ELSE [allThreads |-> Put(threads, newThreadObject(time).id, newThreadObject(time)),
          currentThreadId |-> newThreadObject(time).id, created |-> TRUE]

\* openNewThread on the state: a created thread is stored, and the time has passed
openNewThread ==
    LET opened == openedThread(allThreads, now + 1)
    IN  /\ allThreads' = opened.allThreads
        /\ currentThreadId' = opened.currentThreadId
        /\ storage' = IF opened.created THEN JSONStringify(opened.allThreads) ELSE storage
        /\ storedAs' = IF opened.created THEN "json" ELSE storedAs
        /\ now' = IF opened.created THEN now + 1 ELSE now

OpenNewThread ==
    /\ openNewThread
    /\ UNCHANGED <<streamState, turns, requests, running>>
    /\ UNCHANGED <<pureVars, versionTag, phase, heapVars>>

(* ------------------------------ construction -------------------------- *)
\* a v1 migration that fills nothing in
unmigratedThread(thread) == thread

\* a v1 migration that also touches the thread
migratedThreadTouched(thread) == [thread EXCEPT !.lastModified = thread.lastModified + 1]

\* the v1 -> v2 update of one thread: a missing state is filled in
migratedThread(thread) ==
    LET withState == IF "state" \notin DOMAIN thread
                     THEN Put(thread, "state", defaultThreadState)
                     ELSE thread
    IN  [withState EXCEPT !.messages =
            [i \in 1..Len(thread.messages) |->
                LET chatMessage == thread.messages[i]
                IN  IF chatMessage.role = "user" /\ "state" \notin DOMAIN chatMessage
                    THEN Put(chatMessage, "state", defaultMessageState)
                    ELSE chatMessage]]

\* _updatedThreadsToVersion: the updated threads, or nothing (null) when there is no update
updatedThreadsToVersion(oldThreadsObject, oldVersion) ==
    IF oldVersion \in {Undefined, ""} THEN {}
    ELSE IF oldVersion = "v1"
    THEN {[id \in DOMAIN oldThreadsObject |-> migratedThread(oldThreadsObject[id])]}
    ELSE IF oldVersion = "v2" THEN {}
    ELSE {}

\* JSON.parse returns for JSON text and throws for any other text
readable(kind) == kind # "malformed"

\* _readAllThreads when it does not throw
readAllThreads == IF storedAs = "missing" THEN <<>> ELSE JSONParse(storage)

\* the constructor up to this.state = ...: read the version and the threads, update
\* them to the latest version, store the update
ConstructorLoads ==
    /\ phase = "start"
    /\ IF readable(storedAs)
       THEN LET readThreads == readAllThreads
                updatedThreads == updatedThreadsToVersion(readThreads, versionTag)
            IN  /\ storage' = IF updatedThreads # {}
                               THEN JSONStringify(CHOOSE threads \in updatedThreads : TRUE)
                               ELSE storage
                /\ storedAs' = IF updatedThreads # {} THEN "json" ELSE storedAs
                /\ allThreads' = IF updatedThreads # {}
                                  THEN CHOOSE threads \in updatedThreads : TRUE
                                  ELSE readThreads
                /\ phase' = "loaded"
       ELSE /\ phase' = "thrown"
            /\ UNCHANGED <<allThreads, storage, storedAs>>
    /\ UNCHANGED <<currentThreadId, streamState, now, turns, requests, running, userOps>>
    /\ UNCHANGED <<pureVars, versionTag, heapVars>>

\* the rest of the constructor: openNewThread, then the version tag is stored
ConstructorOpens ==
    /\ phase = "loaded"
    /\ openNewThread
    /\ versionTag' = LATEST_THREAD_VERSION
    /\ phase' = "done"
    /\ UNCHANGED <<streamState, turns, requests, running, userOps>>
    /\ UNCHANGED <<pureVars, heapVars>>

\* what an earlier session can have left under THREAD_VERSION_KEY
StoredVersions == {Undefined, "v0", "v1", "v2"}

\* a thread as version v1 stored it: no state in the thread or in its user message
V1Thread ==
    [id |-> "1", createdAt |-> 1, lastModified |-> 1,
     messages |-> <<[role |-> "user", content |-> "hi", displayContent |-> "hi",
                     selections |-> <<>>],
                    AssistantMessage("ab", "ab")>>]

\* a thread that has a state of its own, and a user message that has one
StatefulThread ==
    [id |-> "2", createdAt |-> 2, lastModified |-> 2,
     messages |-> <<[role |-> "user", content |-> "hi", displayContent |-> "hi",
                     selections |-> <<>>,
                     state |-> [stagingSelections |-> <<>>, isBeingEdited |-> TRUE]]>>,
     state |-> [stagingSelections |-> <<FileSelection("f1")>>, focusedMessageIdx |-> {0},
                isCheckedOfSelectionId |-> <<>>]]

\* a thread without messages
EmptyThread == newThreadObject(2)

\* the thread maps an earlier session can have left under THREAD_STORAGE_KEY
StoredThreadMaps ==
    { <<>>,
      Put(<<>>, V1Thread.id, V1Thread),
      Put(<<>>, StatefulThread.id, StatefulThread),
      Put(Put(<<>>, V1Thread.id, V1Thread), StatefulThread.id, StatefulThread),
      Put(Put(<<>>, V1Thread.id, V1Thread), EmptyThread.id, EmptyThread) }


setFocusedMessageIdx(messageIdx) ==
    /\ LET thread == allThreads[currentThreadId]
       IN  allThreads' = Put(allThreads, currentThreadId,
                [thread EXCEPT !.state = Merge(thread.state, [focusedMessageIdx |-> messageIdx])])
    /\ UNCHANGED <<currentThreadId, storage, streamState, now, turns, requests, running>>
    /\ UNCHANGED <<pureVars, bootVars, heapVars>>

\* _setCurrentMessageState: messageIdx counts from 0
setCurrentMessageState(state, messageIdx) ==
    /\ LET thread == allThreads[currentThreadId]
       IN  allThreads' = Put(allThreads, currentThreadId,
                [thread EXCEPT !.messages =
                    [i \in 1..Len(thread.messages) |->
                        LET m == thread.messages[i]
                        IN  IF i - 1 = messageIdx /\ m.role = "user"
                            THEN [m EXCEPT !.state = Merge(m.state, state)]
                            ELSE m]])
    /\ UNCHANGED <<currentThreadId, storage, streamState, now, turns, requests, running>>
    /\ UNCHANGED <<pureVars, bootVars, heapVars>>

\* _setCurrentThreadState
setCurrentThreadState(state) ==
    /\ LET thread == allThreads[currentThreadId]
       IN  allThreads' = Put(allThreads, thread.id,
                [thread EXCEPT !.state = Merge(thread.state, state)])
    /\ UNCHANGED <<currentThreadId, storage, streamState, now, turns, requests, running>>
    /\ UNCHANGED <<pureVars, bootVars, heapVars>>

\* getFocusedMessageIdx: what it returns (nothing for undefined), or that it threw;
\* reading .role of thread.messages[focusedMessageIdx] throws a TypeError when the
\* thread has no message at that index
getFocusedMessageIdx ==
    LET thread == getCurrentThread
        focusedMessageIdx == thread.state.focusedMessageIdx
    IN  IF focusedMessageIdx = {} THEN [threw |-> FALSE, value |-> {}]
        ELSE LET idx == CHOOSE i \in focusedMessageIdx : TRUE
             IN  IF idx + 1 \notin 1..Len(thread.messages) THEN [threw |-> TRUE, value |-> {}]
                 ELSE LET focusedMessage == thread.messages[idx + 1]
                      IN  IF focusedMessage.role # "user" THEN [threw |-> FALSE, value |-> {}]
                          ELSE IF "state" \notin DOMAIN focusedMessage
                          THEN [threw |-> FALSE, value |-> {}]
                          ELSE [threw |-> FALSE, value |-> focusedMessageIdx]

\* the arguments the user interface passes
FocusedMessageIdxs == {{}, {0}, {1}}
ThreadStateChanges == {[stagingSelections |-> selns] : selns \in SelectionLists}
MessageStateChanges == {[isBeingEdited |-> TRUE]}
MessageIdxs == {0, 1}

(* ------------------------ the block parser --------------------------- *)
\* the markers of a search/replace block (prompts.js), reduced to one letter each
ORIGINAL == "O"
DIVIDER == "D"
FINAL == "F"

Min(a, b) == IF a < b THEN a ELSE b
Max(a, b) == IF a < b THEN b ELSE a

\* the rest of the string from index a on
substringToEnd(str, a, b) == SubSeq(str, Min(Max(a, 0), Len(str)) + 1, Len(str))

\* str.substring(a, b): both indexes are clamped to 0..str.length, and swapped when a > b
substring(str, a, b) ==
    LET ca == Min(Max(a, 0), Len(str))
        cb == Min(Max(b, 0), Len(str))
    IN  SubSeq(str, Min(ca, cb) + 1, Max(ca, cb))

\* str.endsWith(suffix)
endsWith(str, suffix) ==
    /\ Len(suffix) <= Len(str)
    /\ SubSeq(str, Len(str) - Len(suffix) + 1, Len(str)) = suffix

\* the last index at or after `from` where the pattern starts
RECURSIVE lastIndexDownFrom(_, _, _, _)
lastIndexDownFrom(str, pattern, from, k) ==
    IF k < from THEN -1
    ELSE IF SubSeq(str, k + 1, k + Len(pattern)) = pattern THEN k
    ELSE lastIndexDownFrom(str, pattern, from, k - 1)

lastIndexOf(str, pattern, from) ==
    lastIndexDownFrom(str, pattern, Min(Max(from, 0), Len(str)), Len(str) - Len(pattern))

\* str.indexOf(pattern, from): the first index at or after `from` where the pattern
\* starts, -1 when there is none
RECURSIVE indexUpFrom(_, _, _)
indexUpFrom(str, pattern, k) ==
    IF k > Len(str) - Len(pattern) THEN -1
    ELSE IF SubSeq(str, k + 1, k + Len(pattern)) = pattern THEN k
    ELSE indexUpFrom(str, pattern, k + 1)

indexOf(str, pattern, from) == indexUpFrom(str, pattern, Min(Max(from, 0), Len(str)))

\* a check that never finds a marker in progress
endsWithNoPrefixOf(str, anyPrefix) == ""

\* the longest prefix of anyPrefix that str ends with (the empty prefix at least)
endsWithAnyPrefixOf(str, anyPrefix) ==
    LET lens == {i \in 0..Len(anyPrefix) : endsWith(str, SubSeq(anyPrefix, 1, i))}
    IN  SubSeq(anyPrefix, 1, CHOOSE i \in lens : \A other \in lens : other <= i)

Block(state, orig, final) == [state |-> state, orig |-> orig, final |-> final]

\* a search that starts over at the beginning of the string
indexOfAnywhere(str, pattern, from) == indexUpFrom(str, pattern, 0)

\* str.indexOf(ORIGINAL_, i)
findOriginal(str, ORIGINAL_, i) == indexOf(str, ORIGINAL_, i)

\* str.indexOf(DIVIDER_, i)
findDivider(str, DIVIDER_, i) == indexOf(str, DIVIDER_, i)

\* the while loop of extractSearchReplaceBlocks, entered with cursor i and the blocks
\* pushed so far
RECURSIVE scanBlocks(_, _, _)
scanBlocks(str, i, found) ==
    LET ORIGINAL_ == ORIGINAL \o "\n"
        DIVIDER_ == "\n" \o DIVIDER \o "\n"
        FINAL_ == "\n" \o FINAL
        origFound == findOriginal(str, ORIGINAL_, i)
        origStart == origFound + Len(ORIGINAL_)
        dividerFound == findDivider(str, DIVIDER_, origStart)
        isWritingDIVIDER == endsWithAnyPrefixOf(str, DIVIDER_)
        origStrDone == substring(str, origStart, dividerFound)
        dividerStart == dividerFound + Len(DIVIDER_)
        finalFound == indexOf(str, FINAL_, dividerStart)
        isWritingFINAL == endsWithAnyPrefixOf(str, FINAL_)
        finalStrDone == substring(str, dividerStart, finalFound)
        finalStart == finalFound + Len(FINAL_)
    IN  IF origFound = -1 THEN found
        ELSE IF dividerFound = -1
        THEN Append(found, Block("writingOriginal",
                substring(str, origStart, Len(str) - Len(isWritingDIVIDER)), ""))
        ELSE IF finalFound = -1
        THEN Append(found, Block("writingFinal", origStrDone,
                substring(str, dividerStart, Len(str) - Len(isWritingFINAL))))
        ELSE scanBlocks(str, finalStart, Append(found, Block("done", origStrDone, finalStrDone)))

extractSearchReplaceBlocks(str) == scanBlocks(str, 0, <<>>)

\* the pieces a stream delivers: a letter, a line break, a whole marker
Chunks == {"x", "\n", ORIGINAL \o "\n", "\n" \o DIVIDER \o "\n", "\n" \o FINAL}

\* a piece of text arrives; the text is parsed again at each of its characters
Receive(chunk) ==
    /\ text' = text \o chunk
    /\ parsed' = parsed \o [j \in 1..Len(chunk) |->
                    extractSearchReplaceBlocks(SubSeq(text \o chunk, 1, Len(text) + j))]
    /\ UNCHANGED <<svcVars, bootVars, heapVars>>

(* --------------------------- the specification ------------------------ *)
\* the service as its constructor leaves it over an empty store
Init ==
    /\ NoHeap
    /\ now = 1
    /\ allThreads = Put(<<>>, newThreadObject(1).id, newThreadObject(1))
    /\ currentThreadId = newThreadObject(1).id
    /\ storage = JSONStringify(Put(<<>>, newThreadObject(1).id, newThreadObject(1)))
    /\ streamState = <<>>
    /\ turns = <<>>
    /\ requests = <<>>
    /\ running = {}
    /\ userOps = 0
    /\ text = ""
    /\ parsed = <<extractSearchReplaceBlocks("")>>
    /\ versionTag = LATEST_THREAD_VERSION
    /\ storedAs = "json"
    /\ phase = "done"

\* one more call from the user interface
UserOp == userOps < MaxUserOps /\ userOps' = userOps + 1
\* a step of the transport, of a tool or of a continuation
Callback == userOps' = userOps
\* whether sendLLMMessage returns a token, for a step that may send
Acceptances == {accepted \in BOOLEAN : accepted => Len(requests) < MaxRequests}

Next ==
    \/ \E userMessage \in UserTexts, chatMode \in ChatModes :
            Len(turns) < MaxTurns /\ UserOp /\ AddUserMessageStart(userMessage, chatMode)
    \/ \E k \in 1..Len(turns), accepted \in Acceptances : Callback /\ AddUserMessageAppend(k, accepted)
    \/ \E r \in 1..Len(requests), fullText \in StreamTexts : Callback /\ OnText(r, fullText)
    \/ \E r \in 1..Len(requests), fullText \in FinalTexts, toolCalls \in ToolCallLists,
          accepted \in Acceptances :
            Callback /\ OnFinalMessage(r, fullText, toolCalls, accepted)
    \/ \E r \in 1..Len(requests), outcome \in ToolOutcomes, accepted \in Acceptances :
            Callback /\ ToolReturn(r, outcome, accepted)
    \/ \E r \in 1..Len(requests), accepted \in Acceptances :
            Callback /\ OnError(r, "transportError", accepted)
    \/ \E threadId \in DOMAIN allThreads : UserOp /\ CancelStreaming(threadId)
    \/ \E threadId \in DOMAIN allThreads : UserOp /\ DismissStreamError(threadId)
    \/ \E threadId \in DOMAIN allThreads : UserOp /\ SwitchToThread(threadId)
    \/ UserOp /\ OpenNewThread

\* the chat service: turns, the transport, tools, cancellation
Spec == Init /\ [][Next]_vars

(* ----------------------- properties of the service -------------------- *)
\* the messages of a thread
MessagesOf(threads, threadId) == threads[threadId].messages

\* a request of a turn on the thread is streaming: sent, not aborted, not yet answered
Streaming(threadId) ==
    \E r \in 1..Len(requests) :
        /\ ThreadIdOf(r) = threadId
        /\ requests[r].status = "inflight"
        /\ ~requests[r].aborted
        /\ StreamOf(streamState, threadId).streamingToken = Token(r)

\* C1: cancelStreaming(threadId), called while a request of a turn on the thread is
\* streaming and before the transport has delivered its final message or error,
\* appends exactly one assistant message whose content is the messageSoFar
\* accumulated so far ('' when there is none) and leaves streamingToken and
\* messageSoFar of the thread unset.
CancelDuringStream ==
    [][\A threadId \in DOMAIN allThreads :
          (Streaming(threadId) /\ CancelStreaming(threadId)) =>
            LET soFar == StreamOf(streamState, threadId).messageSoFar
                content == IF soFar = Undefined THEN "" ELSE soFar
            IN  /\ MessagesOf(allThreads', threadId) =
                        Append(MessagesOf(allThreads, threadId),
                               [role |-> "assistant", content |-> content,
                                displayContent |-> IF content = "" THEN Null ELSE content])
                /\ StreamOf(streamState', threadId).streamingToken = Undefined
                /\ StreamOf(streamState', threadId).messageSoFar = Undefined]_vars

\* a turn was cancelled while text was streaming: the thread is the user message then
\* one assistant message holding the text so far, and the token is cleared
CancelledDuringStream ==
    /\ Len(requests) = 1 /\ requests[1].aborted /\ requests[1].status = "inflight"
    /\ Len(MessagesOf(allThreads, ThreadIdOf(1))) = 2
    /\ MessagesOf(allThreads, ThreadIdOf(1))[1].role = "user"
    /\ MessagesOf(allThreads, ThreadIdOf(1))[2] = AssistantMessage("a", "a")
    /\ StreamOf(streamState, ThreadIdOf(1)).streamingToken = Undefined

\* cancelStreaming was called on the thread and no turn has started on it since: the
\* last request of the last turn on the thread is aborted
Cancelled(threadId) ==
    \E k \in 1..Len(turns) :
        /\ turns[k].threadId = threadId
        /\ \A later \in (k + 1)..Len(turns) : turns[later].threadId # threadId
        /\ \E r \in 1..Len(requests) :
              /\ requests[r].turn = k
              /\ requests[r].iter = turns[k].nMessagesSent
              /\ requests[r].aborted

\* C2: cancelStreaming(threadId) called again, with no new turn started in between,
\* leaves the thread's message list as it was.
SecondCancelIsNoOp ==
    [][\A threadId \in DOMAIN allThreads :
          (Cancelled(threadId) /\ CancelStreaming(threadId)) =>
            MessagesOf(allThreads', threadId) = MessagesOf(allThreads, threadId)]_vars

\* the assistant messages that finalize: those of cancelStreaming, of onError and of
\* an onFinalMessage without tool calls each end a request's stream
Finalizes(r, accepted) ==
    \/ OnError(r, "transportError", accepted)
    \/ \E fullText \in FinalTexts : OnFinalMessage(r, fullText, <<>>, accepted)

\* C3: once cancelStreaming has finalized a request, a callback of that request
\* (onFinalMessage or onError) delivered later appends no further assistant message.
LateCallbackDoesNotFinalize ==
    [][\A r \in 1..Len(requests), accepted \in BOOLEAN :
          (requests[r].aborted /\ Finalizes(r, accepted)) =>
            MessagesOf(allThreads', ThreadIdOf(r)) = MessagesOf(allThreads, ThreadIdOf(r))]_vars

\* C4: a final message with tool calls t1..tn appends the assistant message with the
\* result's text and starts t1; each tool that returns appends the tool message that
\* carries its id, name and params and starts the next one, in the order of the calls;
\* after tn the request is closed, so that exactly n tool messages follow.
ToolMessagesInOrder ==
    [][/\ \A r \in 1..Len(requests), fullText \in FinalTexts, toolCalls \in ToolCallLists,
            accepted \in BOOLEAN :
              (toolCalls # <<>> /\ OnFinalMessage(r, fullText, toolCalls, accepted)) =>
                /\ MessagesOf(allThreads', ThreadIdOf(r)) =
                        Append(MessagesOf(allThreads, ThreadIdOf(r)),
                               [role |-> "assistant", content |-> fullText,
                                displayContent |-> fullText])
                /\ requests'[r].toolCalls = toolCalls
                /\ requests'[r].toolIdx = 1
                /\ requests'[r].status = "tools"
       /\ \A r \in 1..Len(requests), accepted \in BOOLEAN :
              ToolReturn(r, "ok", accepted) =>
                LET i == requests[r].toolIdx
                    tool == requests[r].toolCalls[i]
                    added == MessagesOf(allThreads', ThreadIdOf(r))
                IN  /\ Len(added) = Len(MessagesOf(allThreads, ThreadIdOf(r))) + 1
                    /\ SubSeq(added, 1, Len(added) - 1) = MessagesOf(allThreads, ThreadIdOf(r))
                    /\ added[Len(added)].role = "tool"
                    /\ added[Len(added)].id = tool.id
                    /\ added[Len(added)].name = tool.name
                    /\ added[Len(added)].params = tool.params
                    /\ IF i < Len(requests[r].toolCalls)
                       THEN requests'[r].status = "tools" /\ requests'[r].toolIdx = i + 1
                       ELSE requests'[r].status = "closed"]_vars

\* a final message with two tool calls was delivered and both tools succeeded
BothToolsSucceeded ==
    /\ Len(requests) >= 1 /\ requests[1].status = "closed"
    /\ Len(requests[1].toolCalls) = 2 /\ requests[1].toolIdx = 2
    /\ LET messages == MessagesOf(allThreads, ThreadIdOf(1))
       IN  /\ Len(messages) = 4
           /\ messages[2] = AssistantMessage("ab", "ab")
           /\ messages[3].role = "tool" /\ messages[3].id = "call1"
           /\ messages[4].role = "tool" /\ messages[4].id = "call2"

\* the tool executions in progress for a turn
RunningOf(k) == {x \in running : requests[x.req].turn = k}

\* C5: within one turn at most one tool execution is in progress, and when the
\* request of loop iteration k+1 exists, the request of iteration k is closed, every
\* one of its tool calls has been reached and has finished, and the thread holds a
\* tool message for each of them.
OneToolAtATime ==
    /\ \A k \in 1..Len(turns) : Cardinality(RunningOf(k)) <= 1
    /\ \A r1, r2 \in 1..Len(requests) :
          (requests[r1].turn = requests[r2].turn /\ requests[r2].iter = requests[r1].iter + 1) =>
            /\ requests[r1].status = "closed"
            /\ requests[r1].toolCalls # <<>>
            /\ requests[r1].toolIdx = Len(requests[r1].toolCalls)
            /\ ~ \E x \in running : x.req = r1
            /\ \A i \in 1..Len(requests[r1].toolCalls) :
                  \E j \in 1..Len(MessagesOf(allThreads, ThreadIdOf(r1))) :
                      /\ MessagesOf(allThreads, ThreadIdOf(r1))[j].role = "tool"
                      /\ MessagesOf(allThreads, ThreadIdOf(r1))[j].id = requests[r1].toolCalls[i].id

\* the second request of a turn is in flight and, in it, a tool is executing
SecondIterationRunsTool ==
    /\ Len(requests) = 2 /\ requests[2].turn = requests[1].turn /\ requests[2].iter = 2
    /\ requests[2].status = "tools"
    /\ [req |-> 2, idx |-> 2] \in running

\* the messages the service appends
AppendedMessages ==
    {UserMessage(chat_userMessageContent(userMessage, selns), userMessage, selns) :
        userMessage \in UserTexts, selns \in SelectionLists}
    \cup {finishedMessage(content) : content \in {""} \cup StreamTexts \cup FinalTexts}
    \cup {AssistantMessage(fullText, fullText) : fullText \in FinalTexts}
    \cup UNION {{ToolMessage(toolCalls[i], "str:" \o toolCalls[i].params, "val:" \o toolCalls[i].params) :
                    i \in 1..Len(toolCalls)} : toolCalls \in ToolCallLists}

\* C9: _addMessageToThread(threadId, m) on an existing thread leaves the thread's
\* messages as the previous list followed by m, its lastModified not smaller than
\* before, and every other thread as it was.
AppendIsAppend ==
    [][\A threadId \in DOMAIN allThreads, m \in AppendedMessages :
          AddMessageToThread(threadId, m) =>
            /\ MessagesOf(allThreads', threadId) = Append(MessagesOf(allThreads, threadId), m)
            /\ allThreads'[threadId].lastModified >= allThreads[threadId].lastModified
            /\ DOMAIN allThreads' = DOMAIN allThreads
            /\ \A other \in DOMAIN allThreads \ {threadId} :
                  allThreads'[other] = allThreads[other]]_vars

\* a message was appended to a thread that already had one, later than the thread
\* was last modified, while another thread exists
AppendedLater ==
    \E threadId \in DOMAIN allThreads :
        /\ Len(MessagesOf(allThreads, threadId)) >= 2
        /\ allThreads[threadId].lastModified > allThreads[threadId].createdAt
        /\ DOMAIN allThreads # {threadId}

(* ------------------ the specification of the thread store -------------- *)
StoreOp == userOps < MaxStoreOps /\ userOps' = userOps + 1
StoreAcceptances == {accepted \in BOOLEAN : accepted => Len(requests) < MaxStoreRequests}

NextStore ==
    \/ \E userMessage \in UserTexts, chatMode \in ChatModes :
            Len(turns) < MaxStoreTurns /\ StoreOp /\ AddUserMessageStart(userMessage, chatMode)
    \/ \E userMessage \in UserTexts, chatMode \in ChatModes, messageIdx \in MessageIdxs :
            Len(turns) < MaxStoreTurns /\ StoreOp
                /\ EditUserMessageStart(userMessage, chatMode, messageIdx)
    \/ \E k \in 1..Len(turns), accepted \in StoreAcceptances :
            Callback /\ AddUserMessageAppend(k, accepted)
    \/ \E r \in 1..Len(requests), fullText \in FinalTexts, accepted \in StoreAcceptances :
            Callback /\ OnFinalMessage(r, fullText, <<>>, accepted)
    \/ \E threadId \in DOMAIN allThreads : StoreOp /\ SwitchToThread(threadId)
    \/ StoreOp /\ OpenNewThread
    \/ \E messageIdx \in FocusedMessageIdxs : StoreOp /\ setFocusedMessageIdx(messageIdx)
    \/ \E state \in MessageStateChanges, messageIdx \in MessageIdxs :
            StoreOp /\ setCurrentMessageState(state, messageIdx)
    \/ \E state \in ThreadStateChanges : StoreOp /\ setCurrentThreadState(state)

\* a thread an earlier session left in storage: one question and its answer
StoredThread ==
    [newThreadObject(1) EXCEPT
        !.messages = <<UserMessage(chat_userMessageContent("hi", <<>>), "hi", <<>>),
                       AssistantMessage("ab", "ab")>>]

\* the service as its constructor leaves it over a store that holds a thread of the
\* latest version: openNewThread has added an empty thread and made it current
InitStore ==
    /\ NoHeap
    /\ now = 2
    /\ allThreads = Put(Put(<<>>, StoredThread.id, StoredThread),
                        newThreadObject(2).id, newThreadObject(2))
    /\ currentThreadId = newThreadObject(2).id
    /\ storage = JSONStringify(Put(Put(<<>>, StoredThread.id, StoredThread),
                                   newThreadObject(2).id, newThreadObject(2)))
    /\ streamState = <<>>
    /\ turns = <<>>
    /\ requests = <<>>
    /\ running = {}
    /\ userOps = 0
    /\ text = ""
    /\ parsed = <<extractSearchReplaceBlocks("")>>
    /\ versionTag = LATEST_THREAD_VERSION
    /\ storedAs = "json"
    /\ phase = "done"

\* the thread store: the operations on threads, their messages and their state
SpecStore == InitStore /\ [][NextStore]_vars

(* --------------------- properties of the thread store ------------------ *)
\* C10: every operation that changes state.allThreads (message append, openNewThread,
\* setFocusedMessageIdx, thread-state update, message-state update, the truncation of
\* editUserMessageAndStreamResponse) leaves the stored thread map equal to the
\* serialization of state.allThreads when it returns.
StorageMatchesState == storage = JSONStringify(allThreads)

(* ---------------------- the specification of the parser ---------------- *)
NextSR == \E chunk \in Chunks : Len(text) + Len(chunk) <= MaxLen /\ Receive(chunk)

\* the parser run over a text that grows
SpecSR == Init /\ [][NextSR]_vars

(* ------------------------ properties of the parser --------------------- *)
\* the result for the first n characters of the text
BlocksOfPrefix(n) == parsed[n + 1]

\* the result for the whole text
blocks == BlocksOfPrefix(Len(text))

\* the lengths of the proper prefixes S1 of the text S2 = S1 + X, X non-empty
ProperPrefixes == 0..(Len(text) - 1)

\* the order of the states of a block
Rank(state) == CASE state = "writingOriginal" -> 1 [] state = "writingFinal" -> 2 [] state = "done" -> 3

\* C6: for S2 = S1 + X with X non-empty, extractSearchReplaceBlocks(S2) is at least
\* as long as extractSearchReplaceBlocks(S1).
LengthNeverShrinks ==
    \A n \in ProperPrefixes :
        LET before == BlocksOfPrefix(n)
        IN  Len(before) <= Len(blocks)

\* a finished block followed by a block being written, where a prefix gave one block
GrewToTwoBlocks ==
    /\ Len(blocks) = 2 /\ blocks[1].state = "done"
    /\ \E n \in ProperPrefixes : Len(BlocksOfPrefix(n)) = 1

\* C7: for S2 = S1 + X, at every index present in both results the state for S2 is
\* the same as or later than the state for S1 in the order writingOriginal,
\* writingFinal, done.
StateNeverRegresses ==
    \A n \in ProperPrefixes :
        LET before == BlocksOfPrefix(n)
        IN  \A i \in 1..Min(Len(before), Len(blocks)) :
                Rank(before[i].state) <= Rank(blocks[i].state)

\* a block is done that prefixes of the text showed as writingOriginal and as writingFinal
WentThroughAllStates ==
    /\ Len(blocks) >= 1 /\ blocks[1].state = "done"
    /\ \E n \in ProperPrefixes :
          Len(BlocksOfPrefix(n)) >= 1 /\ BlocksOfPrefix(n)[1].state = "writingOriginal"
    /\ \E n \in ProperPrefixes :
          Len(BlocksOfPrefix(n)) >= 1 /\ BlocksOfPrefix(n)[1].state = "writingFinal"

\* C8: for S2 = S1 + X, a block that is done for S1 is at the same index for S2, done
\* and with the same orig and final; a block that is writingFinal for S1 has the same
\* orig for S2.
DoneBlocksAreStable ==
    \A n \in ProperPrefixes :
        LET before == BlocksOfPrefix(n)
        IN  \A i \in 1..Len(before) :
                /\ before[i].state = "done" =>
                        i <= Len(blocks) /\ blocks[i] = before[i]
                /\ before[i].state = "writingFinal" =>
                        i <= Len(blocks) /\ blocks[i].orig = before[i].orig

\* text went on after a block with an orig and a final was done, and a prefix showed
\* the block as writingFinal
TextAfterDoneBlock ==
    /\ Len(blocks) >= 1 /\ blocks[1] = Block("done", "x", "x")
    /\ \E n \in ProperPrefixes :
          /\ Len(BlocksOfPrefix(n)) >= 1
          /\ BlocksOfPrefix(n)[1].state = "done"
    /\ \E n \in ProperPrefixes :
          /\ Len(BlocksOfPrefix(n)) >= 1
          /\ BlocksOfPrefix(n)[1] = Block("writingFinal", "x", "x")

\* C12: openNewThread called while some thread has no messages creates no thread:
\* allThreads and the stored map stay as they are and the current thread becomes a
\* thread without messages; called while no thread is empty it creates one thread,
\* stores the new map and makes the new thread current.
OpenReusesEmptyThread ==
    [][OpenNewThread =>
        IF \E id \in DOMAIN allThreads : Len(allThreads[id].messages) = 0
        THEN /\ allThreads' = allThreads
             /\ storage' = storage
             /\ Len(allThreads[currentThreadId'].messages) = 0
        ELSE /\ Cardinality(DOMAIN allThreads') = Cardinality(DOMAIN allThreads) + 1
             /\ \A id \in DOMAIN allThreads : allThreads'[id] = allThreads[id]
             /\ currentThreadId' \in DOMAIN allThreads' \ DOMAIN allThreads
             /\ Len(allThreads'[currentThreadId'].messages) = 0
             /\ storage' = JSONStringify(allThreads')]_vars

\* openNewThread has created a third thread, called while no thread was empty
OpenedThirdThread ==
    /\ DOMAIN allThreads = {"1", "2", "3"}
    /\ currentThreadId = "3"
    /\ Len(allThreads["2"].messages) > 0
    /\ Len(allThreads["3"].messages) = 0

\* C13: in every state after construction, allThreads holds at least one thread
\* without messages.
SomeThreadIsEmpty ==
    phase = "done" => \E id \in DOMAIN allThreads : Len(allThreads[id].messages) = 0

(* -------------------- the specification of construction ---------------- *)
LoadOp == userOps < MaxLoadOps /\ userOps' = userOps + 1

\* the process starts over what an earlier session left in storage
InitLoad ==
    /\ NoHeap
    /\ phase = "start"
    /\ versionTag \in StoredVersions
    /\ \/ storedAs = "json" /\ storage \in {JSONStringify(threads) : threads \in StoredThreadMaps}
       \/ storedAs \in {"missing", "malformed"} /\ storage = <<>>
    /\ allThreads = <<>>
    /\ currentThreadId = Null
    /\ now = 2
    /\ streamState = <<>>
    /\ turns = <<>>
    /\ requests = <<>>
    /\ running = {}
    /\ userOps = 0
    /\ text = ""
    /\ parsed = <<extractSearchReplaceBlocks("")>>

NextLoad ==
    \/ ConstructorLoads
    \/ ConstructorOpens
    \/ phase = "done" /\ LoadOp /\ OpenNewThread
    \/ \E threadId \in DOMAIN allThreads : phase = "done" /\ LoadOp /\ SwitchToThread(threadId)

\* the service from the start of its process
SpecLoad == InitLoad /\ [][NextLoad]_vars

(* ---------------------- properties of construction --------------------- *)
\* C11: after every call of openNewThread, the one of the constructor included,
\* state.currentThreadId names a thread of state.allThreads.
CurrentThreadExistsAfterOpen ==
    [][(ConstructorOpens \/ OpenNewThread) => currentThreadId' \in DOMAIN allThreads']_vars

\* the constructor has created a thread beside the stored ones and made it current
ConstructorOpenedNewThread ==
    /\ phase = "done"
    /\ DOMAIN allThreads = {"1", "2", "3"}
    /\ currentThreadId = "3"

\* C14: when the stored thread data is missing or is not parseable, the constructor
\* does not throw and the thread map it loads is empty.
LoadFailsSoft ==
    [][(storedAs \in {"missing", "malformed"} /\ ConstructorLoads) =>
            phase' = "loaded" /\ allThreads' = <<>>]_vars

\* C15: when the stored version tag is absent or is not a known version, the thread
\* map the service starts with is empty: the stored threads are not carried into
\* state.allThreads.
UnknownVersionResets ==
    [][(versionTag \notin {"v1", "v2"} /\ storedAs = "json" /\ ConstructorLoads) =>
            allThreads' = <<>>]_vars

\* C16: _updatedThreadsToVersion returns no update (null) for data at version v2, and
\* the v1 update applied to its own result gives that result again.
MigrationIsIdempotent ==
    storedAs = "json" =>
        LET threads == JSONParse(storage)
        IN  /\ updatedThreadsToVersion(threads, "v2") = {}
            /\ updatedThreadsToVersion(threads, "v1") # {}
            /\ \A once \in updatedThreadsToVersion(threads, "v1") :
                    updatedThreadsToVersion(once, "v1") = {once}

\* the constructor has updated a stored v1 thread: the thread has the default state,
\* its user message too, and a second update would change nothing
MigratedV1Thread ==
    /\ phase = "loaded"
    /\ "1" \in DOMAIN allThreads
    /\ allThreads["1"].messages[1].role = "user"
    /\ "state" \in DOMAIN allThreads["1"]
    /\ "state" \in DOMAIN allThreads["1"].messages[1]
    /\ allThreads["1"].state = defaultThreadState
    /\ updatedThreadsToVersion(allThreads, "v1") = {allThreads}

\* every thread has a state, and so has every user message
AllHaveState(threads) ==
    \A id \in DOMAIN threads :
        /\ "state" \in DOMAIN threads[id]
        /\ \A i \in 1..Len(threads[id].messages) :
                threads[id].messages[i].role = "user" =>
                    "state" \in DOMAIN threads[id].messages[i]

\* thread `new` is thread `old` with nothing changed but states that were missing,
\* which are the defaults
FilledWithDefaults(old, new) ==
    /\ new.id = old.id /\ new.createdAt = old.createdAt
    /\ new.lastModified = old.lastModified
    /\ new.state = (IF "state" \in DOMAIN old THEN old.state ELSE defaultThreadState)
    /\ Len(new.messages) = Len(old.messages)
    /\ \A i \in 1..Len(old.messages) :
            LET oldMessage == old.messages[i]
                newMessage == new.messages[i]
            IN  IF oldMessage.role = "user" /\ "state" \notin DOMAIN oldMessage
                THEN newMessage = Put(oldMessage, "state", defaultMessageState)
                ELSE newMessage = oldMessage

\* C17: constructed over stored v1 data, every thread and every user message has a
\* state (missing ones are the defaults, present ones are as stored), the updated map
\* is in storage before anything else changes, and the stored version ends as the latest.
V1DataIsMigrated ==
    [][/\ (versionTag = "v1" /\ storedAs = "json" /\ ConstructorLoads) =>
              LET stored == JSONParse(storage)
              IN  /\ phase' = "loaded"
                  /\ AllHaveState(allThreads')
                  /\ DOMAIN allThreads' = DOMAIN stored
                  /\ \A id \in DOMAIN stored :
                          FilledWithDefaults(stored[id], allThreads'[id])
                  /\ storedAs' = "json"
                  /\ storage' = JSONStringify(allThreads')
       /\ (versionTag = "v1" /\ storedAs = "json" /\ ConstructorOpens) =>
              /\ AllHaveState(allThreads')
              /\ \A id \in DOMAIN allThreads : allThreads'[id] = allThreads[id]
              /\ versionTag' = LATEST_THREAD_VERSION]_vars

\* construction over a v1 map has finished: the v1 thread has the default states, the
\* thread that had states keeps them, and the version is the latest
ConstructedOverV1Data ==
    /\ phase = "done"
    /\ versionTag = LATEST_THREAD_VERSION
    /\ {"1", "2"} \subseteq DOMAIN allThreads
    /\ "state" \in DOMAIN allThreads["1"]
    /\ allThreads["1"].messages[1].state = defaultMessageState
    /\ allThreads["2"] = StatefulThread
    /\ \A id \in {"1", "2"} : JSONParse(storage)[id] = allThreads[id]

(* ---------------------- properties of failing turns ------------------- *)
\* the requests turn k has sent
RequestsOfTurn(reqs, k) == {r \in 1..Len(reqs) : reqs[r].turn = k}

\* turn k has ended and sends nothing in this step
StaysDone(k) ==
    /\ turns'[k].pc = "done"
    /\ turns'[k].nMessagesSent = turns[k].nMessagesSent
    /\ RequestsOfTurn(requests', k) = RequestsOfTurn(requests, k)

\* C18: when the transport reports an error for a request, one assistant message with
\* the messageSoFar of the thread ('' when there is none) is appended to the thread, the
\* error is in streamState[threadId].error, messageSoFar and streamingToken are unset,
\* and the turn sends no request, in that step or after it.
TransportErrorEndsTurn ==
    [][/\ \A r \in 1..Len(requests), accepted \in BOOLEAN :
              OnError(r, "transportError", accepted) =>
                LET k == requests[r].turn
                    threadId == ThreadIdOf(r)
                    soFar == StreamOf(streamState, threadId).messageSoFar
                    content == IF soFar = Undefined THEN "" ELSE soFar
                IN  /\ MessagesOf(allThreads', threadId) =
                            Append(MessagesOf(allThreads, threadId),
                                   [role |-> "assistant", content |-> content,
                                    displayContent |-> IF content = "" THEN Null ELSE content])
                    /\ \A id \in DOMAIN allThreads \ {threadId} :
                            MessagesOf(allThreads', id) = MessagesOf(allThreads, id)
                    /\ StreamOf(streamState', threadId) =
                            [error |-> "transportError", messageSoFar |-> Undefined,
                             streamingToken |-> Undefined]
                    /\ StaysDone(k)
       /\ \A k \in 1..Len(turns) : turns[k].pc = "done" => StaysDone(k)]_vars

\* a transport error has ended a turn that had streamed text: the text is the last
\* message of the thread and the error is in the stream state
ErrorAfterPartialText ==
    \E k \in 1..Len(turns) :
        LET threadId == turns[k].threadId
            messages == MessagesOf(allThreads, threadId)
        IN  /\ turns[k].pc = "done"
            /\ StreamOf(streamState, threadId).error = "transportError"
            /\ Len(messages) > 0
            /\ messages[Len(messages)].role = "assistant"
            /\ messages[Len(messages)].content \in StreamTexts

\* the tool messages of a thread
ToolMessagesOf(threads, threadId) ==
    {i \in 1..Len(MessagesOf(threads, threadId)) : MessagesOf(threads, threadId)[i].role = "tool"}

\* C19: when the execution of tool call ti throws, or the conversion of its result to a
\* string throws, the error is in streamState[threadId].error, no message is appended
\* for ti, no later call of that final message is started or answered, the messages
\* appended for the earlier calls stay, and the turn sends no further request.
ToolFailureEndsTurn ==
    [][/\ \A r \in 1..Len(requests), outcome \in ToolOutcomes \ {"ok"}, accepted \in BOOLEAN :
              ToolReturn(r, outcome, accepted) =>
                LET k == requests[r].turn
                    threadId == ThreadIdOf(r)
                IN  /\ StreamOf(streamState', threadId).error = outcome
                    /\ allThreads' = allThreads
                    /\ requests'[r].status = "closed"
                    /\ requests'[r].toolIdx = requests[r].toolIdx
                    /\ {x \in running' : x.req = r} = {}
                    /\ StaysDone(k)
       /\ \A r \in 1..Len(requests) :
              requests[r].status = "closed" =>
                /\ requests'[r].status = "closed"
                /\ requests'[r].toolIdx = requests[r].toolIdx
                /\ {x \in running' : x.req = r} = {}
                /\ \A outcome \in ToolOutcomes, accepted \in BOOLEAN :
                        ~ToolReturn(r, outcome, accepted)]_vars

\* the second tool call of a final message has failed after the first succeeded: the
\* thread keeps the first call's message and has none for the second
SecondToolFailed ==
    /\ Len(requests) = 1 /\ requests[1].status = "closed"
    /\ Len(requests[1].toolCalls) = 2 /\ requests[1].toolIdx = 2
    /\ turns[1].pc = "done"
    /\ StreamOf(streamState, ThreadIdOf(1)).error \in ToolOutcomes \ {"ok"}
    /\ LET messages == MessagesOf(allThreads, ThreadIdOf(1))
       IN  /\ Len(messages) = 3
           /\ messages[3].role = "tool" /\ messages[3].id = "call1"
           /\ ToolMessagesOf(allThreads, ThreadIdOf(1)) = {3}

\* C20: after a final message with tool calls, when every call has run and none has
\* failed the loop sends again (a new request of the turn, whose token becomes the
\* thread's streamingToken, when the transport takes it); when a call fails the turn
\* ends and sends nothing; while calls remain nothing is sent and the turn goes on.
ResendsAfterTools ==
    [][\A r \in 1..Len(requests), outcome \in ToolOutcomes, accepted \in BOOLEAN :
          ToolReturn(r, outcome, accepted) =>
            LET k == requests[r].turn
                isLast == requests[r].toolIdx = Len(requests[r].toolCalls)
                sent == Len(requests')
            IN  IF outcome # "ok" THEN StaysDone(k)
                ELSE IF ~isLast
                THEN /\ Len(requests') = Len(requests)
                     /\ turns'[k].pc = "awaiting"
                     /\ turns'[k].nMessagesSent = turns[k].nMessagesSent
                ELSE /\ turns'[k].nMessagesSent = turns[k].nMessagesSent + 1
                     /\ IF accepted
                        THEN /\ sent = Len(requests) + 1
                             /\ requests'[sent].turn = k
                             /\ requests'[sent].iter = requests[r].iter + 1
                             /\ requests'[sent].status = "inflight"
                             /\ turns'[k].pc = "awaiting"
                             /\ StreamOf(streamState', ThreadIdOf(r)).streamingToken = Token(sent)
                        ELSE /\ sent = Len(requests)
                             /\ turns'[k].pc = "done"]_vars

\* both tool calls of the first request succeeded and the turn has sent its second
\* request, which carries both tool messages
SentAgainAfterTools ==
    /\ Len(requests) = 2
    /\ requests[1].status = "closed" /\ Len(requests[1].toolCalls) = 2
    /\ requests[2].turn = requests[1].turn /\ requests[2].iter = 2
    /\ requests[2].status = "inflight"
    /\ {m.id : m \in {requests[2].messages[j] : j \in {j \in 1..Len(requests[2].messages) :
                            requests[2].messages[j].role = "tool"}}} = {"call1", "call2"}

(* --------------------- a thread whose last turn failed ---------------- *)
RetryOp == userOps < MaxRetryOps /\ userOps' = userOps + 1
RetryAcceptances == {accepted \in BOOLEAN : accepted => Len(requests) < MaxRetryRequests}

\* the thread after a turn whose request the transport answered with an error before
\* any text: the question and an empty assistant message
FailedThread ==
    [newThreadObject(1) EXCEPT
        !.messages = <<UserMessage(chat_userMessageContent("hi", <<>>), "hi", <<>>),
                       finishedMessage("")>>]

\* the service after that turn: the error is in the stream state of the thread
InitRetry ==
    /\ NoHeap
    /\ now = 1
    /\ allThreads = Put(<<>>, FailedThread.id, FailedThread)
    /\ currentThreadId = FailedThread.id
    /\ storage = JSONStringify(allThreads)
    /\ streamState = finishedStreamState(<<>>, FailedThread.id, "transportError")
    /\ turns = <<[startTurn(newThreadObject(1), "hi", "agent", <<>>, <<>>) EXCEPT
                    !.pc = "done", !.shouldSendAnotherMessage = FALSE, !.nMessagesSent = 1,
                    !.userMessageFullContent =
                        chat_userMessageContentWithAllFiles(
                            chat_userMessageContent("hi", <<>>),
                            chat_selectionsString(<<>>, <<>>))]>>
    /\ requests = <<[turn |-> 1, iter |-> 1,
                     messages |-> requestMessages(
                        Put(<<>>, FailedThread.id,
                            [FailedThread EXCEPT !.messages = <<FailedThread.messages[1]>>]),
                        turns[1].userMessageFullContent),
                     tools |-> toolsOf("agent"), status |-> "closed", aborted |-> FALSE,
                     toolCalls |-> <<>>, toolIdx |-> 0]>>
    /\ running = {}
    /\ userOps = 0
    /\ text = ""
    /\ parsed = <<extractSearchReplaceBlocks("")>>
    /\ versionTag = LATEST_THREAD_VERSION
    /\ storedAs = "json"
    /\ phase = "done"

NextRetry ==
    \/ \E userMessage \in UserTexts, chatMode \in ChatModes :
            Len(turns) < MaxRetryTurns /\ RetryOp /\ AddUserMessageStart(userMessage, chatMode)
    \/ \E k \in 1..Len(turns), accepted \in RetryAcceptances :
            Callback /\ AddUserMessageAppend(k, accepted)
    \/ \E r \in 1..Len(requests), fullText \in StreamTexts : Callback /\ OnText(r, fullText)
    \/ \E r \in 1..Len(requests), fullText \in FinalTexts, accepted \in RetryAcceptances :
            Callback /\ OnFinalMessage(r, fullText, <<>>, accepted)
    \/ \E r \in 1..Len(requests), accepted \in RetryAcceptances :
            Callback /\ OnError(r, "transportError", accepted)
    \/ \E threadId \in DOMAIN allThreads : RetryOp /\ CancelStreaming(threadId)
    \/ \E threadId \in DOMAIN allThreads : RetryOp /\ DismissStreamError(threadId)

\* the service from the end of a failed turn: the next question, its answer in text
SpecRetry == InitRetry /\ [][NextRetry]_vars

\* the state the specification of the failed thread starts in, as the chat service
\* reaches it
FailedTurnReached ==
    /\ allThreads = Put(<<>>, FailedThread.id, FailedThread)
    /\ streamState = finishedStreamState(<<>>, FailedThread.id, "transportError")
    /\ Len(turns) = 1 /\ turns[1].pc = "done"
    /\ Len(requests) = 1 /\ requests[1].status = "closed"

\* C21: on a final message without tool calls one assistant message with the final text
\* is appended to the thread of the turn, messageSoFar and streamingToken are unset, and
\* the turn ends without a send, in that step or after it.
FinalTextEndsTurn ==
    [][/\ \A r \in 1..Len(requests), fullText \in FinalTexts, accepted \in BOOLEAN :
              OnFinalMessage(r, fullText, <<>>, accepted) =>
                LET k == requests[r].turn
                    threadId == ThreadIdOf(r)
                IN  /\ MessagesOf(allThreads', threadId) =
                            Append(MessagesOf(allThreads, threadId),
                                   [role |-> "assistant", content |-> fullText,
                                    displayContent |-> fullText])
                    /\ \A id \in DOMAIN allThreads \ {threadId} :
                            MessagesOf(allThreads', id) = MessagesOf(allThreads, id)
                    /\ StreamOf(streamState', threadId).messageSoFar = Undefined
                    /\ StreamOf(streamState', threadId).streamingToken = Undefined
                    /\ requests'[r].status = "closed"
                    /\ StaysDone(k)
       /\ \A k \in 1..Len(turns) : turns[k].pc = "done" => StaysDone(k)]_vars

\* a turn has ended on a final text: the final text is the last message of the thread,
\* after the question, and nothing of the stream is left
EndedOnFinalText ==
    \E r \in 1..Len(requests) :
        LET threadId == ThreadIdOf(r)
            messages == MessagesOf(allThreads, threadId)
        IN  /\ requests[r].status = "closed" /\ ~requests[r].aborted
            /\ turns[requests[r].turn].pc = "done"
            /\ messages[Len(messages)] = AssistantMessage("ab", "ab")
            /\ messages[Len(messages) - 1].role = "user"
            /\ StreamOf(streamState, threadId) = EmptyStreamState

(* ------------------------- editing a conversation --------------------- *)
EditOp == userOps < MaxEditOps /\ userOps' = userOps + 1
EditAcceptances == {accepted \in BOOLEAN : accepted => Len(requests) < MaxEditRequests}

\* a conversation an earlier session left in storage: two questions, each with a file
\* attached, and their answers
ConversationThread ==
    [newThreadObject(1) EXCEPT
        !.messages =
            <<UserMessage(chat_userMessageContent("q1", <<FileSelection("f1")>>), "q1",
                          <<FileSelection("f1")>>),
              AssistantMessage("a1", "a1"),
              UserMessage(chat_userMessageContent("q2", <<FileSelection("f2")>>), "q2",
                          <<FileSelection("f2")>>),
              AssistantMessage("a2", "a2")>>]

\* the indices the user interface may pass: every message of the conversation, and one
\* past the end
EditIdxs == 0..4

\* the service as its constructor leaves it over that conversation: openNewThread has
\* added an empty thread and made it current
InitEdit ==
    /\ NoHeap
    /\ now = 2
    /\ allThreads = Put(Put(<<>>, ConversationThread.id, ConversationThread),
                        newThreadObject(2).id, newThreadObject(2))
    /\ currentThreadId = newThreadObject(2).id
    /\ storage = JSONStringify(allThreads)
    /\ streamState = <<>>
    /\ turns = <<>>
    /\ requests = <<>>
    /\ running = {}
    /\ userOps = 0
    /\ text = ""
    /\ parsed = <<extractSearchReplaceBlocks("")>>
    /\ versionTag = LATEST_THREAD_VERSION
    /\ storedAs = "json"
    /\ phase = "done"

NextEdit ==
    \/ \E userMessage \in UserTexts, chatMode \in ChatModes, messageIdx \in EditIdxs :
            Len(turns) < MaxEditTurns /\ EditOp
                /\ EditUserMessageStart(userMessage, chatMode, messageIdx)
    \/ \E k \in 1..Len(turns), accepted \in EditAcceptances :
            Callback /\ AddUserMessageAppend(k, accepted)
    \/ \E r \in 1..Len(requests), fullText \in FinalTexts, accepted \in EditAcceptances :
            Callback /\ OnFinalMessage(r, fullText, <<>>, accepted)
    \/ \E threadId \in DOMAIN allThreads : EditOp /\ SwitchToThread(threadId)
    \/ \E messageIdx \in {{}} \cup {{i} : i \in EditIdxs} :
            EditOp /\ setFocusedMessageIdx(messageIdx)

\* the service over a stored conversation: focus, edit and resend
SpecEdit == InitEdit /\ [][NextEdit]_vars

(* ------------------------- properties of editing ---------------------- *)
\* the message at index messageIdx (from 0) of the current thread is a user message
IsUserMessageAt(messageIdx) ==
    /\ messageIdx < Len(getCurrentThread.messages)
    /\ getCurrentThread.messages[messageIdx + 1].role = "user"

\* the selections of the user messages of `messages` at indices (from 0) below k
SelectionsBelow(messages, k) ==
    LET users == {i \in 1..k : messages[i].role = "user"}
        RECURSIVE upTo(_)
        upTo(i) == IF i = 0 THEN <<>>
                   ELSE upTo(i - 1) \o (IF i \in users THEN messages[i].selections ELSE <<>>)
    IN  upTo(k)

\* C22: editUserMessageAndStreamResponse on the user message at index k cuts the current
\* thread to its first k messages and starts a turn whose prior selections are those of
\* the user messages below k and whose current selections are those of the former
\* message k; the turn then appends one user message with the new text and those
\* current selections, and its request is built from both.
EditTruncatesAndResends ==
    [][/\ \A userMessage \in UserTexts, chatMode \in ChatModes, messageIdx \in EditIdxs :
              (IsUserMessageAt(messageIdx)
                    /\ EditUserMessageStart(userMessage, chatMode, messageIdx)) =>
                LET former == getCurrentThread.messages
                    T == turns'[Len(turns')]
                IN  /\ MessagesOf(allThreads', currentThreadId) = SubSeq(former, 1, messageIdx)
                    /\ \A id \in DOMAIN allThreads \ {currentThreadId} :
                            allThreads'[id] = allThreads[id]
                    /\ Len(turns') = Len(turns) + 1
                    /\ T.threadId = currentThreadId /\ T.pc = "preparing"
                    /\ T.instructions = userMessage
                    /\ T.prevSelns = SelectionsBelow(former, messageIdx)
                    /\ T.currSelns = former[messageIdx + 1].selections
       /\ \A k \in 1..Len(turns), accepted \in BOOLEAN :
              AddUserMessageAppend(k, accepted) =>
                LET T == turns[k]
                    content == chat_userMessageContent(T.instructions, T.currSelns)
                IN  /\ MessagesOf(allThreads', T.threadId) =
                            Append(MessagesOf(allThreads, T.threadId),
                                   [role |-> "user", content |-> content,
                                    displayContent |-> T.instructions,
                                    selections |-> T.currSelns,
                                    state |-> defaultMessageState])
                    /\ turns'[k].userMessageFullContent =
                            chat_userMessageContentWithAllFiles(content,
                                chat_selectionsString(T.prevSelns, T.currSelns))
                    /\ turns'[k].prevSelns = T.prevSelns
                    /\ turns'[k].currSelns = T.currSelns]_vars

\* the second question of the conversation has been edited and resent: the thread is
\* the first question, its answer and the new question with the second question's file,
\* and the turn ran with the first question's file as prior selection
EditedSecondQuestion ==
    /\ Len(turns) = 1 /\ turns[1].pc \in {"awaiting", "done"}
    /\ turns[1].prevSelns = <<FileSelection("f1")>>
    /\ turns[1].currSelns = <<FileSelection("f2")>>
    /\ LET messages == MessagesOf(allThreads, ConversationThread.id)
       IN  /\ Len(messages) = 3
           /\ SubSeq(messages, 1, 2) = SubSeq(ConversationThread.messages, 1, 2)
           /\ messages[3].role = "user" /\ messages[3].displayContent = "hi"
           /\ messages[3].selections = <<FileSelection("f2")>>

\* C23: editUserMessageAndStreamResponse with an index whose message is not a user
\* message, or is no message, throws at once: the threads, the current thread id, the
\* storage, the stream state and the requests are as before, and the call never sends.
EditOfNonUserMessageThrows ==
    [][/\ \A userMessage \in UserTexts, chatMode \in ChatModes, messageIdx \in EditIdxs :
              (~IsUserMessageAt(messageIdx)
                    /\ EditUserMessageStart(userMessage, chatMode, messageIdx)) =>
                /\ Len(turns') = Len(turns) + 1
                /\ turns'[Len(turns')].pc = "thrown"
                /\ UNCHANGED <<allThreads, currentThreadId, storage, streamState, requests,
                               running>>
       /\ \A k \in 1..Len(turns) :
              turns[k].pc = "thrown" =>
                /\ turns'[k] = turns[k]
                /\ RequestsOfTurn(requests', k) = {}]_vars

\* an edit of the stored conversation at an answer, or past its end, has thrown: the
\* conversation is whole and nothing was sent
EditOfAnswerThrew ==
    /\ Len(turns) = 1 /\ turns[1].pc = "thrown"
    /\ turns[1].threadId = ConversationThread.id
    /\ allThreads[ConversationThread.id] = ConversationThread
    /\ requests = <<>>

(* --------------------- properties of the stream error ----------------- *)
\* C24: an error in streamState[threadId] is removed only by
\* dismissStreamError(threadId); no other operation or callback takes it away.
OnlyDismissClearsError ==
    [][\A threadId \in DOMAIN allThreads :
          (/\ StreamOf(streamState, threadId).error # Undefined
           /\ StreamOf(streamState', threadId).error = Undefined) =>
                DismissStreamError(threadId)]_vars

\* C25: addUserMessageAndStreamResponse appends the user message to the thread, stores
\* the threads and clears the error of the thread in the step that issues the first
\* request of the turn, which has no request before it; the message is there whether or
\* not the transport takes the request, and stays whatever arrives or does not.
UserMessageBeforeFirstRequest ==
    [][/\ \A k \in 1..Len(turns), accepted \in BOOLEAN :
              AddUserMessageAppend(k, accepted) =>
                LET T == turns[k]
                    sent == Len(requests')
                IN  /\ RequestsOfTurn(requests, k) = {}
                    /\ Len(MessagesOf(allThreads', T.threadId)) =
                            Len(MessagesOf(allThreads, T.threadId)) + 1
                    /\ LET message == MessagesOf(allThreads', T.threadId)[
                                            Len(MessagesOf(allThreads', T.threadId))]
                       IN  /\ message.role = "user"
                           /\ message.displayContent = T.instructions
                           /\ message.selections = T.currSelns
                    /\ storage' = JSONStringify(allThreads')
                    /\ StreamOf(streamState', T.threadId).error = Undefined
                    /\ IF accepted
                       THEN /\ sent = Len(requests) + 1
                            /\ requests'[sent].turn = k /\ requests'[sent].iter = 1
                            /\ requests'[sent].messages[Len(requests'[sent].messages)] =
                                    [role |-> "user", content |-> turns'[k].userMessageFullContent]
                       ELSE requests' = requests
       /\ \A k \in 1..Len(turns) : turns[k].pc = "preparing" => RequestsOfTurn(requests, k) = {}
       /\ \A id \in DOMAIN allThreads :
              SubSeq(MessagesOf(allThreads', id), 1, Len(MessagesOf(allThreads, id))) =
                    MessagesOf(allThreads, id)]_vars

\* the question after the failed turn has been sent: it is the last message of the
\* thread and of the request in flight, and the error of the failed turn is gone
ResentAfterFailure ==
    /\ Len(turns) = 2 /\ turns[2].pc = "awaiting"
    /\ Len(requests) = 2 /\ requests[2].status = "inflight" /\ requests[2].turn = 2
    /\ LET messages == MessagesOf(allThreads, turns[2].threadId)
       IN  /\ Len(messages) = 3
           /\ messages[3].role = "user"
    /\ StreamOf(streamState, turns[2].threadId).error = Undefined
    /\ StreamOf(streamState, turns[2].threadId).streamingToken = Token(2)

(* ---------------------- the objects behind this.state ----------------- *)
\* An object is a cell of the heap; its address is its index. The state object refers
\* to the thread map, the map to its threads, a thread to its messages array and to its
\* state record. Messages are kept in the array cell as values.
stateCell(allThreadsRef, threadId) ==
    [kind |-> "state", allThreads |-> allThreadsRef, currentThreadId |-> threadId]
mapCell(threadRefs) == [kind |-> "map", threads |-> threadRefs]
threadCell(thread, messagesRef, recordRef) ==
    [kind |-> "thread", id |-> thread.id, createdAt |-> thread.createdAt,
     lastModified |-> thread.lastModified, messages |-> messagesRef, state |-> recordRef]
arrayCell(items) == [kind |-> "array", items |-> items]
recordCell(value) == [kind |-> "record", value |-> value]

\* what a reader sees through a reference to a thread, and to the state
ThreadValue(h, ref) ==
    [id |-> h[ref].id, createdAt |-> h[ref].createdAt, lastModified |-> h[ref].lastModified,
     messages |-> h[h[ref].messages].items, state |-> h[h[ref].state].value]
StateValue(h, ref) ==
    [allThreads |-> [id \in DOMAIN h[h[ref].allThreads].threads |->
                        ThreadValue(h, h[h[ref].allThreads].threads[id])],
     currentThreadId |-> h[ref].currentThreadId]

\* the objects newThreadObject() creates: the record, the array, the thread
newThreadObjects(h, time) ==
    LET h1 == Append(h, recordCell(newThreadObject(time).state))
        h2 == Append(h1, arrayCell(<<>>))
    IN  Append(h2, threadCell(newThreadObject(time), Len(h2), Len(h1)))

\* _setState: this.state = { ...this.state, ...state } is a new object
setStateObject(h, ref, state) ==
    LET h1 == Append(h, Merge(h[ref], state))
    IN  [heap |-> h1, stateRef |-> Len(h1)]

\* what a subscriber holds after _onDidChangeCurrentThread.fire(): the object
\* this.state refers to, and what it read through it
snapshotOf(h, ref) == [ref |-> ref, value |-> StateValue(h, ref)]

\* the state is replaced and the subscribers are notified
Replace(set) ==
    /\ heap' = set.heap
    /\ stateRef' = set.stateRef
    /\ snapshots' = snapshots \cup {snapshotOf(set.heap, set.stateRef)}

\* oldThread.messages.push(message): the array the old thread refers to is changed
pushedMessages(h, ref, message) ==
    [heap |-> [h EXCEPT ![ref] = arrayCell(Append(h[ref].items, message))], ref |-> ref]

\* [...oldThread.messages, message] is a new array
spreadMessages(h, ref, message) ==
    LET h1 == Append(h, arrayCell(Append(h[ref].items, message)))
    IN  [heap |-> h1, ref |-> Len(h1)]

\* _addMessageToThread on the objects: a new array, a new thread, a new map, a new state
addMessageToThreadObjects(threadId, message) ==
    /\ AddMessageToThread(threadId, message)
    /\ LET map == heap[heap[stateRef].allThreads]
           oldThread == heap[map.threads[threadId]]
           messages == spreadMessages(heap, oldThread.messages, message)
           h2 == Append(messages.heap,
                        [oldThread EXCEPT !.lastModified = now', !.messages = messages.ref])
           h3 == Append(h2, mapCell(Put(map.threads, threadId, Len(h2))))
       IN  Replace(setStateObject(h3, stateRef, [allThreads |-> Len(h3)]))
    /\ UNCHANGED <<currentThreadId, streamState, turns, requests, running>>
    /\ UNCHANGED <<pureVars, bootVars>>

\* setFocusedMessageIdx on the objects: a new record, a new thread, a new map, a new state
setFocusedMessageIdxObjects(messageIdx) ==
    /\ LET thread == allThreads[currentThreadId]
       IN  allThreads' = Put(allThreads, currentThreadId,
                [thread EXCEPT !.state = Merge(thread.state, [focusedMessageIdx |-> messageIdx])])
    /\ LET map == heap[heap[stateRef].allThreads]
           thread == heap[map.threads[currentThreadId]]
           h1 == Append(heap, recordCell(Merge(heap[thread.state].value,
                                               [focusedMessageIdx |-> messageIdx])))
           h2 == Append(h1, [thread EXCEPT !.state = Len(h1)])
           h3 == Append(h2, mapCell(Put(map.threads, currentThreadId, Len(h2))))
       IN  Replace(setStateObject(h3, stateRef, [allThreads |-> Len(h3)]))
    /\ UNCHANGED <<currentThreadId, storage, streamState, now, turns, requests, running>>
    /\ UNCHANGED <<pureVars, bootVars>>

\* the truncation of editUserMessageAndStreamResponse on the objects: slice() is a new
\* array, in a new thread, a new map, a new state
sliceMessagesObjects(messageIdx) ==
    /\ editable(getCurrentThread, messageIdx)
    /\ allThreads' = Put(allThreads, currentThreadId,
            [getCurrentThread EXCEPT !.messages = Slice(getCurrentThread.messages, messageIdx)])
    /\ LET map == heap[heap[stateRef].allThreads]
           thread == heap[map.threads[currentThreadId]]
           h1 == Append(heap, arrayCell(Slice(heap[thread.messages].items, messageIdx)))
           h2 == Append(h1, [thread EXCEPT !.messages = Len(h1)])
           h3 == Append(h2, mapCell(Put(map.threads, currentThreadId, Len(h2))))
       IN  Replace(setStateObject(h3, stateRef, [allThreads |-> Len(h3)]))
    /\ UNCHANGED <<currentThreadId, storage, streamState, now, turns, requests, running>>
    /\ UNCHANGED <<pureVars, bootVars>>

\* switchToThread on the objects: a new state that refers to the same map
switchToThreadObjects(threadId) ==
    /\ currentThreadId' = threadId
    /\ Replace(setStateObject(heap, stateRef, [currentThreadId |-> threadId]))
    /\ UNCHANGED <<allThreads, storage, streamState, now, turns, requests, running>>
    /\ UNCHANGED <<pureVars, bootVars>>

\* openNewThread on the objects: switchToThread when a thread is empty, and otherwise
\* the objects of the new thread, a new map, a new state
openNewThreadObjects ==
    /\ openNewThread
    /\ IF EmptyThreadIds(allThreads) # {}
       THEN Replace(setStateObject(heap, stateRef,
                        [currentThreadId |-> FirstEmptyThreadId(allThreads)]))
       ELSE LET map == heap[heap[stateRef].allThreads]
                h1 == newThreadObjects(heap, now + 1)
                h2 == Append(h1, mapCell(Put(map.threads, newThreadObject(now + 1).id, Len(h1))))
            IN  Replace(setStateObject(h2, stateRef,
                            [allThreads |-> Len(h2),
                             currentThreadId |-> newThreadObject(now + 1).id]))
    /\ UNCHANGED <<streamState, turns, requests, running>>
    /\ UNCHANGED <<pureVars, versionTag, phase>>

\* the messages the turns append
HeapMessages == {UserMessage("hi", "hi", <<>>), AssistantMessage("ab", "ab")}

HeapOp == userOps < MaxHeapOps /\ userOps' = userOps + 1

\* the service as its constructor leaves it over an empty store, with its objects: the
\* first thread, the map, the state; no subscriber has been notified
InitHeap ==
    /\ now = 1
    /\ allThreads = Put(<<>>, newThreadObject(1).id, newThreadObject(1))
    /\ currentThreadId = newThreadObject(1).id
    /\ storage = JSONStringify(allThreads)
    /\ streamState = <<>>
    /\ turns = <<>>
    /\ requests = <<>>
    /\ running = {}
    /\ userOps = 0
    /\ text = ""
    /\ parsed = <<extractSearchReplaceBlocks("")>>
    /\ versionTag = LATEST_THREAD_VERSION
    /\ storedAs = "json"
    /\ phase = "done"
    /\ heap = LET h3 == newThreadObjects(<<>>, 1)
                  h4 == Append(h3, mapCell(Put(<<>>, newThreadObject(1).id, Len(h3))))
              IN  Append(h4, stateCell(Len(h4), newThreadObject(1).id))
    /\ stateRef = Len(heap)
    /\ snapshots = {}

NextHeap ==
    \/ \E threadId \in DOMAIN allThreads, message \in HeapMessages :
            HeapOp /\ addMessageToThreadObjects(threadId, message)
    \/ \E messageIdx \in FocusedMessageIdxs : HeapOp /\ setFocusedMessageIdxObjects(messageIdx)
    \/ \E messageIdx \in MessageIdxs : HeapOp /\ sliceMessagesObjects(messageIdx)
    \/ \E threadId \in DOMAIN allThreads : HeapOp /\ switchToThreadObjects(threadId)
    \/ HeapOp /\ openNewThreadObjects

\* the thread store as objects that refer to each other, read by a subscriber
SpecHeap == InitHeap /\ [][NextHeap]_vars

FocusedMessageIdxIsChecked ==
    LET thread == getCurrentThread
        stored == thread.state.focusedMessageIdx
        valid == \E idx \in stored :
                    /\ idx + 1 \in 1..Len(thread.messages)
                    /\ thread.messages[idx + 1].role = "user"
                    /\ "state" \in DOMAIN thread.messages[idx + 1]
    IN  getFocusedMessageIdx = [threw |-> FALSE, value |-> IF valid THEN stored ELSE {}]

(* ------------------- extractCodeFromRegular (part_001) ---------------- *)
\* the three backquotes of a fence; the backquote, which a TLA+ string cannot hold, is
\* written as ~
FENCE == "~~~"

\* new SurroundingsRemover(s): the string is s[i...j]
SurroundingsRemover(s) == [originalS |-> s, i |-> 0, j |-> Len(s) - 1]

\* value()
value(pm) == substring(pm.originalS, pm.i, pm.j + 1)

\* str.charAt(k)
charAt(str, k) == IF k >= 0 /\ k < Len(str) THEN SubSeq(str, k + 1, k + 1) ELSE ""

\* removePrefix: i moves over the characters that match, also when not all do
RECURSIVE matchedPrefix(_, _, _)
matchedPrefix(pm, prefix, offset) ==
    IF /\ pm.i + offset <= pm.j
       /\ offset <= Len(prefix) - 1
       /\ charAt(pm.originalS, pm.i + offset) = charAt(prefix, offset)
    THEN matchedPrefix(pm, prefix, offset + 1)
    ELSE offset

removePrefix(pm, prefix) ==
    LET offset == matchedPrefix(pm, prefix, 0)
    IN  [pm |-> [pm EXCEPT !.i = pm.i + offset], removed |-> offset = Len(prefix)]

\* removeSuffix: the longest prefix of the suffix that the value ends with is cut
removeSuffix(pm, suffix) ==
    LET s == value(pm)
        lens == {len \in 1..Min(Len(s), Len(suffix)) : endsWith(s, SubSeq(suffix, 1, len))}
    IN  IF lens = {} THEN [pm |-> pm, removed |-> FALSE]
        ELSE LET len == CHOOSE l \in lens : \A m \in lens : m <= l
             IN  [pm |-> [pm EXCEPT !.j = pm.j - len], removed |-> len = Len(suffix)]

\* a removal that always stops in front of the string it looked for
removeFromStartBefore(pm, until, alsoRemoveUntilStr) ==
    LET index == indexOf(pm.originalS, until, pm.i)
    IN  IF index = -1 THEN [pm EXCEPT !.i = pm.j + 1] ELSE [pm EXCEPT !.i = index]

\* removeFromStartUntil: the remover it leaves
removeFromStartUntil(pm, until, alsoRemoveUntilStr) ==
    LET index == indexOf(pm.originalS, until, pm.i)
    IN  IF index = -1 THEN [pm EXCEPT !.i = pm.j + 1]
        ELSE IF alsoRemoveUntilStr THEN [pm EXCEPT !.i = index + Len(until)]
        ELSE [pm EXCEPT !.i = index]

\* removeCodeBlock: the remover it leaves
removeCodeBlock(pm) ==
    LET prefix == removePrefix(pm, FENCE)
    IN  IF ~prefix.removed THEN prefix.pm
        ELSE LET language == removeFromStartUntil(prefix.pm, "\n", TRUE)
                 j == language.j
                 fence == removeSuffix(language, FENCE)
                 foundCodeBlockEnd == IF fence.pm.j = j
                                      THEN removeSuffix(fence.pm, FENCE \o "\n")
                                      ELSE fence
             IN  IF ~foundCodeBlockEnd.removed THEN foundCodeBlockEnd.pm
                 ELSE removeSuffix(foundCodeBlockEnd.pm, "\n").pm

\* deltaInfo
deltaInfo(pm, recentlyAddedTextLen) ==
    LET recentlyAddedIdx == Len(pm.originalS) - recentlyAddedTextLen
        actualDelta == substring(pm.originalS, Max(pm.i, recentlyAddedIdx), pm.j + 1)
        ignoredSuffix == substring(pm.originalS, Max(pm.j + 1, recentlyAddedIdx),
                                   Len(pm.originalS))
    IN  <<actualDelta, ignoredSuffix>>

extractCodeFromRegular(str, recentlyAddedTextLen) ==
    LET pm == removeCodeBlock(SurroundingsRemover(str))
    IN  <<value(pm)>> \o deltaInfo(pm, recentlyAddedTextLen)

\* the strings of at most n characters of code
RECURSIVE CodeStrings(_)
CodeStrings(n) ==
    IF n = 0 THEN {""}
    ELSE CodeStrings(n - 1) \cup {s \o c : s \in CodeStrings(n - 1), c \in {"x", "\n", " "}}

\* the code of a block: no backquote in it
Codes == CodeStrings(MaxCodeLen) \cup {"hello"}
Languages == {"", "js"}

\* a fenced block
Fenced(language, code) == FENCE \o language \o "\n" \o code \o "\n" \o FENCE

\* the extractor is given a fenced block, or code without a fence
InitCode ==
    /\ text \in {Fenced(language, code) : language \in Languages, code \in Codes} \cup Codes
    /\ parsed = <<>>
    /\ now = 1
    /\ allThreads = Put(<<>>, newThreadObject(1).id, newThreadObject(1))
    /\ currentThreadId = newThreadObject(1).id
    /\ storage = JSONStringify(allThreads)
    /\ streamState = <<>>
    /\ turns = <<>>
    /\ requests = <<>>
    /\ running = {}
    /\ userOps = 0
    /\ versionTag = LATEST_THREAD_VERSION
    /\ storedAs = "json"
    /\ phase = "done"
    /\ NoHeap

\* extractCodeFromRegular({ text, recentlyAddedTextLen }) is called
ExtractCode(recentlyAddedTextLen) ==
    /\ parsed = <<>>
    /\ parsed' = <<extractCodeFromRegular(text, recentlyAddedTextLen)>>
    /\ UNCHANGED <<text, svcVars, bootVars, heapVars>>

NextCode == \E recentlyAddedTextLen \in 0..Len(text) : ExtractCode(recentlyAddedTextLen)

\* extractCodeFromRegular over fenced and bare texts
SpecCode == InitCode /\ [][NextCode]_vars

\* C28: for a text that is an opening fence, a language tag or none, a newline, code
\* without a backquote, a newline and a closing fence,
\* the live value extractCodeFromRegular returns is the code; for language js, code
\* hello and recentlyAddedTextLen 5 it is "hello".
FencedCodeIsExtracted ==
    parsed # <<>> =>
        /\ \A language \in Languages, code \in Codes :
                text = Fenced(language, code) => parsed[1][1] = code
        /\ text = Fenced("js", "hello") =>
                extractCodeFromRegular(text, 5)[1] = "hello"

\* the block with language js and code hello has been extracted
ExtractedHello ==
    /\ text = Fenced("js", "hello")
    /\ parsed = <<extractCodeFromRegular(text, 5)>>
    /\ parsed[1][1] = "hello"

(* ------------------ turns and the thread they started on --------------- *)
\* C29: every request of a turn carries the history of the thread the turn started
\* on (the system message, then that thread's messages with its last user message in
\* full), whatever thread is current when the request is built.
RequestsCarryTheTurnsThread ==
    [][\A r \in 1..Len(requests') :
            r > Len(requests) =>
                LET T == turns'[requests'[r].turn]
                IN  requests'[r].messages =
                        requestMessagesOf(allThreads'[T.threadId], T.userMessageFullContent)]_vars

(* ------------------------------ cancellation --------------------------- *)
\* C30: after cancelStreaming(threadId) has told the transport to stop the request a
\* turn was waiting on, that turn sends nothing more: the aborted request is the last
\* request of its turn, also when a tool of the turn was executing at the time and
\* returns its result afterwards.
CancelledTurnSendsNothing ==
    \A r, later \in 1..Len(requests) :
        (requests[r].aborted /\ requests[later].turn = requests[r].turn) => later <= r

(* ------------------------- the end of a turn --------------------------- *)
\* C31: once every turn of a thread has left its loop (after a final answer without
\* tool calls, a transport error, a tool error or a refusal of the transport to take
\* the request), the thread's streamingToken is unset.
NoTokenAfterTheLoop ==
    \A threadId \in DOMAIN allThreads :
        (/\ \E k \in 1..Len(turns) : turns[k].threadId = threadId
         /\ \A k \in 1..Len(turns) : turns[k].threadId = threadId => turns[k].pc = "done")
            => StreamOf(streamState, threadId).streamingToken = Undefined

(* ------------------------- the loop of one turn ------------------------ *)
\* The conditions of agentLoop read shouldSendAnotherMessage, the token sendLLMMessage
\* returned and the outcome of each tool call, and nothing else: not the messages of the
\* thread, not nMessagesSent (written at line 383, read nowhere), not the requests already
\* answered. This specification follows one turn through its loop and keeps of a pass
\* what the conditions read: `requests` holds the request of the current pass only,
\* nMessagesSent stays at 1, and the messages the handlers append to the thread after
\* the user message are not recorded, so that a loop that goes round is a cycle of states.

\* the tool calls a final message may carry: none, or up to MaxToolCalls of them
LoopToolCalls(n) == [i \in 1..n |-> ToolCall("read_file", "p" \o ToString(i), "call" \o ToString(i))]
LoopToolCallLists == {LoopToolCalls(n) : n \in 0..MaxToolCalls}
LoopChatModes == {"chat", "agent"}
LoopUserTexts == {"hi", "go on"}
LoopStreamTexts == {"a", "ab"}

\* the request of one pass of the while loop (lines 385-459)
LoopRequest(T, threads) ==
    [turn |-> 1, iter |-> 1,
     messages |-> requestMessages(threads, T.userMessageFullContent),
     tools |-> toolsOf(T.chatMode),
     status |-> "inflight", aborted |-> FALSE, toolCalls |-> <<>>, toolIdx |-> 0]

\* res_(): the while condition is read; the loop sends again (and ends at once when
\* sendLLMMessage returns null) or ends
LoopResume(T, ss, accepted) ==
    IF T.shouldSendAnotherMessage
    THEN IF accepted
         THEN /\ requests' = <<LoopRequest(T, allThreads)>>
              /\ streamState' = setStreamState(ss, T.threadId, [streamingToken |-> Token(1)])
              /\ turns' = <<[T EXCEPT !.pc = "awaiting", !.shouldSendAnotherMessage = FALSE]>>
         ELSE /\ requests' = <<[requests[1] EXCEPT !.status = "closed"]>>
              /\ streamState' = ss
              /\ turns' = <<[T EXCEPT !.pc = "done", !.shouldSendAnotherMessage = FALSE]>>
    ELSE /\ turns' = <<[T EXCEPT !.pc = "done"]>>
         /\ streamState' = ss
         /\ requests' = <<[requests[1] EXCEPT !.status = "closed"]>>

\* onFinalMessage up to its first await, or to its end when there is no tool call
LoopOnFinalMessage(fullText, toolCalls, accepted) ==
    /\ Len(requests) = 1 /\ TransportMayDeliver(1)
    /\ requests[1].tools = Undefined => toolCalls = <<>>
    /\ LET threadId == ThreadIdOf(1)
       IN  IF Len(toolCalls) = 0
           THEN /\ LoopResume(turns[1], finishedStreamState(streamState, threadId, Undefined),
                              accepted)
                /\ running' = running
           ELSE /\ streamState' = setStreamState(streamState, threadId, [messageSoFar |-> Undefined])
                /\ requests' = <<[requests[1] EXCEPT !.status = "tools",
                                                     !.toolCalls = toolCalls, !.toolIdx = 1]>>
                /\ running' = running \cup startTool(1, toolCalls, 1)
                /\ turns' = turns
    /\ UNCHANGED <<allThreads, currentThreadId, storage, now, userOps>>
    /\ UNCHANGED <<pureVars, bootVars, heapVars>>

\* onFinalMessage from the await of a tool execution to the next await or to res_()
LoopToolReturn(outcome, accepted) ==
    /\ Len(requests) = 1 /\ requests[1].status = "tools"
    /\ [req |-> 1, idx |-> requests[1].toolIdx] \in running
    /\ LET threadId == ThreadIdOf(1)
           i == requests[1].toolIdx
           left == running \ {[req |-> 1, idx |-> i]}
       IN  IF outcome = "ok"
           THEN IF i < Len(requests[1].toolCalls)
                THEN /\ requests' = <<[requests[1] EXCEPT !.toolIdx = i + 1]>>
                     /\ running' = left \cup startTool(1, requests[1].toolCalls, i + 1)
                     /\ turns' = <<afterToolSuccess(turns[1])>>
                     /\ streamState' = streamState
                ELSE /\ running' = left
                     /\ LoopResume(afterToolSuccess(turns[1]), streamState, accepted)
           ELSE /\ running' = left
                /\ LoopResume(afterToolFailure(turns[1]),
                              setStreamState(streamState, threadId, [error |-> outcome]),
                              accepted)
    /\ UNCHANGED <<allThreads, currentThreadId, storage, now, userOps>>
    /\ UNCHANGED <<pureVars, bootVars, heapVars>>

\* onError
LoopOnError(error, accepted) ==
    /\ Len(requests) = 1 /\ TransportMayDeliver(1)
    /\ LoopResume(turns[1], finishedStreamState(streamState, ThreadIdOf(1), error), accepted)
    /\ UNCHANGED <<allThreads, currentThreadId, storage, now, running, userOps>>
    /\ UNCHANGED <<pureVars, bootVars, heapVars>>

\* cancelStreaming(threadId), called while the turn is in its loop
LoopCancelStreaming(threadId) ==
    /\ Len(requests) = 1 /\ turns[1].pc = "awaiting"
    /\ LET llmCancelToken == StreamOf(streamState, threadId).streamingToken
       IN  requests' = IF llmCancelToken # Undefined THEN abort(requests, llmCancelToken) ELSE requests
    /\ streamState' = finishedStreamState(streamState, threadId, Undefined)
    /\ UNCHANGED <<allThreads, currentThreadId, storage, now, turns, running, userOps>>
    /\ UNCHANGED <<pureVars, bootVars, heapVars>>

\* the transport answers the request it has taken: with a final message or with an error
TransportAnswers ==
    \/ \E fullText \in FinalTexts, toolCalls \in LoopToolCallLists, accepted \in BOOLEAN :
            LoopOnFinalMessage(fullText, toolCalls, accepted)
    \/ \E accepted \in BOOLEAN : LoopOnError("transportError", accepted)

\* the tool execution awaited returns or throws
ToolAnswers == \E outcome \in ToolOutcomes, accepted \in BOOLEAN : LoopToolReturn(outcome, accepted)

\* the awaits of addUserMessageAndStreamResponse resolve
TurnBegins ==
    \E accepted \in BOOLEAN : Len(turns) = 1 /\ AddUserMessageAppend(1, accepted) /\ Callback

NextLoop ==
    \/ \E userMessage \in LoopUserTexts, chatMode \in LoopChatModes :
            Len(turns) = 0 /\ AddUserMessageStart(userMessage, chatMode) /\ Callback
    \/ TurnBegins
    \/ \E fullText \in LoopStreamTexts : Len(requests) = 1 /\ OnText(1, fullText) /\ Callback
    \/ TransportAnswers
    \/ ToolAnswers
    \/ \E threadId \in DOMAIN allThreads : LoopCancelStreaming(threadId)
    \/ \E threadId \in DOMAIN allThreads : DismissStreamError(threadId) /\ Callback

\* one turn under a transport that answers every request and tools that all return or throw
SpecLoop ==
    /\ Init
    /\ [][NextLoop]_vars
    /\ WF_vars(TurnBegins) /\ WF_vars(TransportAnswers) /\ WF_vars(ToolAnswers)

\* C32: when the transport answers every request and every tool call returns or throws,
\* a turn that has been started leaves its loop, whatever tool calls the answers carry.
EveryTurnEnds ==
    (Len(turns) = 1) ~> (Len(turns) = 1 /\ turns[1].pc = "done")

(* ------------------- turns on a thread with history -------------------- *)
\* the tool calls of a final message: none, or one
SendToolCallLists == {<<>>, <<ToolCall("read_file", "p1", "call1")>>}

\* what the user sends
SendUserTexts == {"hi", "more"}

\* a thread after a turn that was sent with file f1 attached and that the transport
\* answered with an error before any text; the error has been dismissed and file f2
\* is staged for the next message
AnsweredThread ==
    [newThreadObject(1) EXCEPT
        !.messages = <<UserMessage(chat_userMessageContent("hi", <<FileSelection("f1")>>),
                                   "hi", <<FileSelection("f1")>>),
                       finishedMessage("")>>,
        !.state = [defaultThreadState EXCEPT !.stagingSelections = <<FileSelection("f2")>>]]

InitSend ==
    /\ NoHeap
    /\ now = 1
    /\ allThreads = Put(<<>>, AnsweredThread.id, AnsweredThread)
    /\ currentThreadId = AnsweredThread.id
    /\ storage = JSONStringify(allThreads)
    /\ streamState = <<>>
    /\ turns = <<>>
    /\ requests = <<>>
    /\ running = {}
    /\ userOps = 0
    /\ text = ""
    /\ parsed = <<extractSearchReplaceBlocks("")>>
    /\ versionTag = LATEST_THREAD_VERSION
    /\ storedAs = "json"
    /\ phase = "done"

\* the steps of the service when the user may start maxTurns turns and make maxOps
\* calls in all, and the transport takes maxRequests requests
SendSteps(maxTurns, maxOps, maxRequests) ==
    \/ \E userMessage \in SendUserTexts, chatMode \in ChatModes :
            /\ Len(turns) < maxTurns /\ userOps < maxOps /\ userOps' = userOps + 1
            /\ AddUserMessageStart(userMessage, chatMode)
    \/ \E k \in 1..Len(turns), accepted \in BOOLEAN :
            /\ accepted => Len(requests) < maxRequests
            /\ Callback /\ AddUserMessageAppend(k, accepted)
    \/ \E r \in 1..Len(requests), fullText \in FinalTexts, toolCalls \in SendToolCallLists,
          accepted \in BOOLEAN :
            /\ accepted => Len(requests) < maxRequests
            /\ Callback /\ OnFinalMessage(r, fullText, toolCalls, accepted)
    \/ \E r \in 1..Len(requests), accepted \in BOOLEAN :
            /\ accepted => Len(requests) < maxRequests
            /\ Callback /\ ToolReturn(r, "ok", accepted)
    \/ \E threadId \in DOMAIN allThreads :
            /\ userOps < maxOps /\ userOps' = userOps + 1
            /\ CancelStreaming(threadId)
    \/ /\ userOps < maxOps /\ userOps' = userOps + 1
       /\ OpenNewThread

NextSend == SendSteps(MaxSendTurns, MaxSendOps, MaxSendRequests)

\* the chat service over a thread with history: one turn
SpecSend == InitSend /\ [][NextSend]_vars

NextPair == SendSteps(MaxPairTurns, MaxPairOps, MaxPairRequests)

\* the chat service over a thread with history: two turns that may overlap
SpecPair == InitSend /\ [][NextPair]_vars

\* the position of the last user message of a list of messages, 0 when there is none
LastUserMessage(messages) ==
    LET users == {i \in 1..Len(messages) : messages[i].role = "user"}
    IN  IF users = {} THEN 0 ELSE CHOOSE i \in users : \A j \in users : j <= i

\* the requests a step has sent
NewRequests == {r \in 1..Len(requests') : r > Len(requests)}

\* every user message kept in memory and in storage has its lean content: the
\* instructions and the names of its selections
LeanContentKept(threads) ==
    \A id \in DOMAIN threads : \A i \in 1..Len(threads[id].messages) :
        LET m == threads[id].messages[i]
        IN  m.role = "user" => m.content = chat_userMessageContent(m.displayContent, m.selections)

\* the content the transport is given for a message whose content is empty
PlaceholderOf(message) == IF message.role = "tool" THEN "(empty output)" ELSE "(empty message)"

\* C33 as stated: a request carries one system message and then the messages of the
\* thread it is built from, in order, each with the content it has in the thread except
\* the last user message, whose content is the expanded content; the user messages kept
\* in the thread and in storage keep their lean content.
SentListIsThreadWithOneChange ==
    [][\A r \in NewRequests :
            LET T == turns'[requests'[r].turn]
                kept == allThreads'[currentThreadId'].messages
                sent == requests'[r].messages
            IN  /\ Len(sent) = Len(kept) + 1
                /\ sent[1] = [role |-> "system", content |-> chat_systemMessage]
                /\ \A i \in 1..Len(kept) :
                        /\ sent[i + 1].role = kept[i].role
                        /\ sent[i + 1].content =
                                IF i = LastUserMessage(kept) THEN T.userMessageFullContent
                                ELSE kept[i].content
                /\ LeanContentKept(allThreads') /\ LeanContentKept(storage')]_vars

\* C33, amended: the same, except that a message whose content is empty is sent with
\* the placeholder '(empty message)' ('(empty output)' for a tool message) as its
\* content; a tool message is sent with its id, name and params.
SentListIsThreadWithPlaceholders ==
    [][\A r \in NewRequests :
            LET T == turns'[requests'[r].turn]
                kept == allThreads'[currentThreadId'].messages
                sent == requests'[r].messages
            IN  /\ Len(sent) = Len(kept) + 1
                /\ sent[1] = [role |-> "system", content |-> chat_systemMessage]
                /\ \A i \in 1..Len(kept) :
                        /\ sent[i + 1].role = kept[i].role
                        /\ sent[i + 1].content =
                                IF i = LastUserMessage(kept) THEN T.userMessageFullContent
                                ELSE IF kept[i].content = "" THEN PlaceholderOf(kept[i])
                                ELSE kept[i].content
                        /\ kept[i].role = "tool" =>
                                /\ sent[i + 1].id = kept[i].id
                                /\ sent[i + 1].name = kept[i].name
                                /\ sent[i + 1].params = kept[i].params
                /\ LeanContentKept(allThreads') /\ LeanContentKept(storage')]_vars

\* a second request of a turn is in flight: it carries the expanded content, which
\* differs from the lean content kept in the thread, the placeholder for the empty
\* answer, and a tool message
SentWithPlaceholder ==
    \E r \in 1..Len(requests) :
        LET sent == requests[r].messages
            threadId == ThreadIdOf(r)
            kept == allThreads[threadId].messages
        IN  /\ requests[r].status = "inflight" /\ requests[r].iter = 2
            /\ currentThreadId = threadId
            /\ Len(sent) = Len(kept) + 1
            /\ sent[3].content = "(empty message)" /\ kept[2].content = ""
            /\ sent[4].content = turns[requests[r].turn].userMessageFullContent
            /\ sent[4].content # kept[3].content
            /\ \E i \in 1..Len(kept) : kept[i].role = "tool"


(* ---------------------- the requests of one thread --------------------- *)
\* the requests of turns of a thread that the transport has not answered
InFlightOn(threadId) ==
    {r \in 1..Len(requests) : ThreadIdOf(r) = threadId /\ requests[r].status = "inflight"}

\* C34: a thread has at most one request in flight that has not been aborted, and the
\* token of that request is the thread's streamingToken, so that cancelStreaming on
\* the thread aborts every request of the thread that is still in flight.
OneRequestInFlightPerThread ==
    \A threadId \in DOMAIN allThreads :
        LET live == {r \in InFlightOn(threadId) : ~requests[r].aborted}
        IN  /\ Cardinality(live) <= 1
            /\ \A r \in live : StreamOf(streamState, threadId).streamingToken = Token(r)


(* ------------------ the user message a turn expands -------------------- *)
\* the user message a turn appends to its thread
UserMessageOfTurn(T) ==
    UserMessage(chat_userMessageContent(T.instructions, T.currSelns), T.instructions, T.currSelns)

\* C35: in every request a turn builds from its own thread, the message whose content is
\* replaced by the turn's expanded content is the user message that turn appended, also
\* when a later turn has appended a user message to the thread in the meantime.
ExpansionReplacesOwnMessage ==
    [][\A r \in NewRequests :
            LET T == turns'[requests'[r].turn]
                kept == allThreads'[T.threadId].messages
            IN  currentThreadId' = T.threadId =>
                    /\ LastUserMessage(kept) # 0
                    /\ kept[LastUserMessage(kept)] = UserMessageOfTurn(T)]_vars

(* ---------------------- the blocks and their markers ------------------- *)
\* the three markers as extractSearchReplaceBlocks looks for them
OriginalMarker == ORIGINAL \o "\n"
DividerMarker == "\n" \o DIVIDER \o "\n"
FinalMarker == "\n" \o FINAL

\* where the ORIGINAL marker of block k of the result `found` starts in the string: the
\* first ORIGINAL marker at or after the end of block k - 1, which is a done block made
\* of its ORIGINAL marker, its orig, the DIVIDER marker, its final and the FINAL marker
RECURSIVE MarkerOfBlock(_, _, _)
MarkerOfBlock(str, found, k) ==
    IF k = 1 THEN indexOf(str, OriginalMarker, 0)
    ELSE IF MarkerOfBlock(str, found, k - 1) = -1 THEN -1
    ELSE indexOf(str, OriginalMarker,
                 MarkerOfBlock(str, found, k - 1) + Len(OriginalMarker) + Len(found[k - 1].orig)
                    + Len(DividerMarker) + Len(found[k - 1].final) + Len(FinalMarker))

\* the strings the parser has been given: the text and its prefixes
PrefixLengths == 0..Len(text)
PrefixOfText(n) == SubSeq(text, 1, n)

\* C36: the blocks of a result are in the order of their ORIGINAL markers in the string,
\* every block but the last is done, and the last block is writingOriginal exactly when
\* no DIVIDER marker follows its ORIGINAL marker, writingFinal exactly when a DIVIDER
\* marker follows and no FINAL marker follows that DIVIDER marker.
BlocksFollowTheirMarkers ==
    \A n \in PrefixLengths :
        LET str == PrefixOfText(n)
            found == BlocksOfPrefix(n)
        IN  /\ \A k \in 1..Len(found) :
                    /\ MarkerOfBlock(str, found, k) # -1
                    /\ k > 1 => MarkerOfBlock(str, found, k - 1) < MarkerOfBlock(str, found, k)
            /\ \A k \in 1..(Len(found) - 1) : found[k].state = "done"
            /\ Len(found) > 0 =>
                    LET last == found[Len(found)]
                        afterOriginal == MarkerOfBlock(str, found, Len(found)) + Len(OriginalMarker)
                        divider == indexOf(str, DividerMarker, afterOriginal)
                        final == indexOf(str, FinalMarker, divider + Len(DividerMarker))
                    IN  /\ last.state = "writingOriginal" <=> divider = -1
                        /\ last.state = "writingFinal" <=> (divider # -1 /\ final = -1)
                        /\ last.state = "done" <=> (divider # -1 /\ final # -1)

\* a done block is followed by a block whose divider has arrived and whose FINAL marker
\* has not, and a DIVIDER marker stands in the text before the second ORIGINAL marker
DoneThenWritingFinal ==
    /\ Len(blocks) = 2
    /\ blocks[1].state = "done" /\ blocks[2].state = "writingFinal"
    /\ MarkerOfBlock(text, blocks, 1) < MarkerOfBlock(text, blocks, 2)
    /\ indexOf(text, DividerMarker, 0) < MarkerOfBlock(text, blocks, 2)

\* the strings that are the beginning of a DIVIDER marker
DividerPrefixes == {SubSeq(DividerMarker, 1, i) : i \in 0..Len(DividerMarker)}

\* str with the longest beginning of a DIVIDER marker it ends with cut off
WithoutDividerInProgress(str) ==
    LET cuts == {i \in 0..Len(str) :
                    SubSeq(str, Len(str) - i + 1, Len(str)) \in DividerPrefixes}
    IN  SubSeq(str, 1, Len(str) - (CHOOSE i \in cuts : \A j \in cuts : j <= i))

\* s is the beginning of t
IsPrefixOf(s, t) == Len(s) <= Len(t) /\ SubSeq(t, 1, Len(s)) = s

\* C37: the orig of a writingOriginal block is everything after its ORIGINAL marker up to
\* the end of the string, without the beginning of a DIVIDER marker the string ends
\* with; it is empty when the string ends right after the ORIGINAL marker, it holds no
\* character of the ORIGINAL marker, and the orig for S1 is the beginning of the orig
\* for every S1 + X in which the block is still writingOriginal.
OrigOfWritingOriginal ==
    \A n \in PrefixLengths :
        LET str == PrefixOfText(n)
            found == BlocksOfPrefix(n)
            last == found[Len(found)]
            afterOriginal == MarkerOfBlock(str, found, Len(found)) + Len(OriginalMarker)
        IN  (Len(found) > 0 /\ last.state = "writingOriginal") =>
                /\ last.orig = WithoutDividerInProgress(SubSeq(str, afterOriginal + 1, Len(str)))
                /\ afterOriginal = Len(str) => last.orig = ""
                /\ Len(last.orig) <= Len(str) - afterOriginal
                /\ \A longer \in n..Len(text) :
                        LET later == BlocksOfPrefix(longer)
                        IN  (/\ Len(later) = Len(found)
                             /\ later[Len(later)].state = "writingOriginal") =>
                                IsPrefixOf(last.orig, later[Len(later)].orig)

(* ------------------------- deltaInfo (part_001) ------------------------ *)
\* the characters of str at the 0-based positions from..(to - 1); none when to <= from
Between(str, from, to) == SubSeq(str, from + 1, to)

\* C38: deltaInfo(n) returns the part of the live substring [i..j] that lies in the last
\* n characters of the source, and the part of the source after j that lies in the last
\* n characters; when i is at or before the start of the last n characters, the two
\* together are the last n characters; after extractCodeFromRegular's removals
\* 0 <= i <= j + 1 <= the length of the source.
DeltaIsRecentLivePart ==
    parsed # <<>> =>
        \A n \in 0..Len(text) :
            parsed[1] = extractCodeFromRegular(text, n) =>
                LET pm == removeCodeBlock(SurroundingsRemover(text))
                    recentlyAddedIdx == Len(text) - n
                    delta == parsed[1][2]
                    withheld == parsed[1][3]
                IN  /\ delta = Between(text, Max(pm.i, recentlyAddedIdx), pm.j + 1)
                    /\ withheld = Between(text, Max(pm.j + 1, recentlyAddedIdx), Len(text))
                    /\ pm.i <= recentlyAddedIdx =>
                            delta \o withheld = Between(text, recentlyAddedIdx, Len(text))
                    /\ 0 <= pm.i /\ pm.i <= pm.j + 1 /\ pm.j + 1 <= Len(text)

=============================================================================
